---- MODULE Spec2Model ----
(***************************************************************************)
(* Model of the competitor-intelligence scraper: the Scrape Coordinator    *)
(* (agents/scraper_agent.py), the Extraction Client's retry logic and the  *)
(* Record Normalizer (agents/llm_utils.py) and the Reconciliation Engine's *)
(* dedupe/merge step (utils/product_cleaner.py).                           *)
(*                                                                         *)
(* Python values are tagged records: None, Str(<<atoms>>), List(<<..>>),   *)
(* Num(n), Dict(function from key to value).  A text is a sequence of      *)
(* atoms; an atom is one lexical unit (a word, a digit, a symbol, a space). *)
(***************************************************************************)
EXTENDS Integers, Sequences, FiniteSets, TLC

\* ------------------------------------------------------------------------
\* Bounds of the model
\* ------------------------------------------------------------------------
MaxUrls == 2
MaxProducts == 3
MaxRetriesArg == 5
MaxRawItems == 2
MaxRuns == 5
MaxPerUrl == 2
MaxMoneyLen == 3
MaxPriced == 2
MaxChars == 4
MaxItems == 2





\* ------------------------------------------------------------------------
\* Python values
\* ------------------------------------------------------------------------
None == [t |-> "none"]
Str(s) == [t |-> "str", v |-> s]
List(l) == [t |-> "list", v |-> l]
Num(n) == [t |-> "num", v |-> n]
Dict(d) == [t |-> "dict", v |-> d]

\* Python truthiness of a value: None, "", [], {} and 0 are falsy.
Truthy(x) ==
  CASE x.t = "none" -> FALSE
    [] x.t = "str" -> x.v # <<>>
    [] x.t = "list" -> x.v # <<>>
    [] x.t = "num" -> x.v # 0
    [] x.t = "dict" -> DOMAIN x.v # {}

\* dict.get(key, default) on the mapping d.
Get(d, k, default) == IF k \in DOMAIN d THEN d[k] ELSE default

\* d with d[k] = val  (dict item assignment).
SetItem(d, k, val) ==
  [x \in DOMAIN d \cup {k} |-> IF x = k THEN val ELSE d[x]]

\* isinstance(x, dict)
IsDict(x) == x.t = "dict"

\* ------------------------------------------------------------------------
\* Text helpers (str.strip, str.lower, re.sub(r"\s+", " ", s))
\* ------------------------------------------------------------------------
IsSpace(c) == c \in {" ", "\n", "\t"}
IsDigit(c) == c \in {"0", "1", "2", "3", "4", "5", "6", "7", "8", "9"}
IsCurrency(c) == c \in {"£", "$", "€"}

LowerAtom(c) ==
  CASE c = "Plan" -> "plan"
    [] c = "A" -> "a"
    [] c = "Ex.com" -> "ex.com"
    [] c = "HTTPS:" -> "https:"
    [] OTHER -> c

Lower(s) == [i \in 1..Len(s) |-> LowerAtom(s[i])]

RECURSIVE LStrip(_)
LStrip(s) ==
  IF s = <<>> THEN s
  ELSE IF IsSpace(Head(s)) THEN LStrip(Tail(s)) ELSE s

RECURSIVE RStrip(_)
RStrip(s) ==
  IF s = <<>> THEN s
  ELSE IF IsSpace(s[Len(s)]) THEN RStrip(SubSeq(s, 1, Len(s) - 1)) ELSE s

Strip(s) == RStrip(LStrip(s))

RECURSIVE CollapseSpace(_)
CollapseSpace(s) ==
  IF s = <<>> THEN <<>>
  ELSE IF IsSpace(Head(s)) THEN <<" ">> \o CollapseSpace(LStrip(s))
  ELSE <<Head(s)>> \o CollapseSpace(Tail(s))

\* ------------------------------------------------------------------------
\* utils/product_cleaner.py
\* ------------------------------------------------------------------------
IsScheme(a) == a \in {"https:", "http:", "HTTPS:"}

RECURSIVE TakeAuthority(_)
TakeAuthority(s) ==
  IF s = <<>> THEN <<>>
  ELSE IF Head(s) \in {"/", "?", "#"} THEN <<>>
  ELSE <<Head(s)>> \o TakeAuthority(Tail(s))

\* urlparse(url).netloc: the atoms between "//" and the next "/", "?" or "#".
Netloc(u) ==
  LET rest == IF u # <<>> /\ IsScheme(Head(u)) THEN Tail(u) ELSE u
  IN IF rest # <<>> /\ Head(rest) = "//" THEN TakeAuthority(Tail(rest))
     ELSE <<>>

\* Mutant: no provider domain is derived from the URL.
_domain_from_url_Blank(url) == <<>>

_domain_from_url(url) ==
  IF ~Truthy(url) THEN <<>> ELSE Lower(Netloc(url.v))

_normalize_text(value) ==
  IF value.t = "none" THEN <<>>
  ELSE CollapseSpace(Lower(Strip(value.v)))

RECURSIVE FirstCurrency(_)
FirstCurrency(s) ==
  IF s = <<>> THEN <<>>
  ELSE IF IsCurrency(Head(s)) THEN <<Head(s)>> ELSE FirstCurrency(Tail(s))

RECURSIVE TakeDigits(_)
TakeDigits(s) ==
  IF s = <<>> THEN <<>>
  ELSE IF IsDigit(Head(s)) THEN <<Head(s)>> \o TakeDigits(Tail(s)) ELSE <<>>

\* re.search(r"[\d]+(?:\.[\d]+)?", s): leftmost, greedy.
RECURSIVE FirstNumber(_)
FirstNumber(s) ==
  IF s = <<>> THEN <<>>
  ELSE IF ~IsDigit(Head(s)) THEN FirstNumber(Tail(s))
  ELSE LET int == TakeDigits(s)
           rest == SubSeq(s, Len(int) + 1, Len(s))
       IN IF Len(rest) >= 2 /\ rest[1] = "." /\ IsDigit(rest[2])
          THEN int \o <<".">> \o TakeDigits(Tail(rest))
          ELSE int

RemoveCommas(s) == SelectSeq(s, LAMBDA c : c # ",")

\* Mutant: the currency symbol is looked for at the start of the text only.
_normalize_money_LeadingSymbolOnly(value) ==
  IF value.t = "none" THEN <<>>
  ELSE LET s == Strip(value.v)
           currency == IF s # <<>> /\ IsCurrency(Head(s)) THEN <<Head(s)>>
                       ELSE <<>>
           num == FirstNumber(RemoveCommas(s))
       IN IF s = <<>> THEN <<>>
          ELSE IF currency # <<>> /\ num # <<>> THEN currency \o num
          ELSE s

_normalize_money(value) ==
  IF value.t = "none" THEN <<>>
  ELSE LET s == Strip(value.v)
           currency == FirstCurrency(s)
           num == FirstNumber(RemoveCommas(s))
       IN IF s = <<>> THEN <<>>
          ELSE IF currency # <<>> /\ num # <<>> THEN currency \o num
          ELSE s

\* The dedupe key of one record (lines 66-74).
DedupeKey(p) ==
  << _domain_from_url(Get(p, "source_url", None)),
     _normalize_text(Get(p, "product_name", None)),
     _normalize_money(Get(p, "price_monthly", None)),
     _normalize_money(Get(p, "price_annual", None)),
     _normalize_money(Get(p, "excess", None)) >>

\* Mutant: the provider domain is left out of the key comparison.
SeenIndex_IgnoresProvider(seen, key) ==
  IF \E i \in 1..Len(seen) : Tail(seen[i].key) = Tail(key)
  THEN CHOOSE i \in 1..Len(seen) : Tail(seen[i].key) = Tail(key)
  ELSE 0

\* Position of key in the insertion-ordered dict `seen`, 0 if absent.
SeenIndex(seen, key) ==
  IF \E i \in 1..Len(seen) : seen[i].key = key
  THEN CHOOSE i \in 1..Len(seen) : seen[i].key = key
  ELSE 0

\* Lines 76-81: first occurrence of a key, a copy of p with bookkeeping fields.
NewEntry(d, src, provider) ==
  SetItem(SetItem(d, "_provider_domain", Str(provider)),
          "_source_urls", List(IF Truthy(src) THEN <<src>> ELSE <<>>))

\* Mutant: the membership test is missing, a repeated URL is added again.
AddSourceUrl_NoMembershipTest(existing, src) ==
  LET urls == Get(existing, "_source_urls", List(<<>>))
  IN IF Truthy(src)
     THEN SetItem(existing, "_source_urls", List(Append(urls.v, src)))
     ELSE existing

\* Lines 84-85: remember the source URL of a later duplicate once.
AddSourceUrl(existing, src) ==
  LET urls == Get(existing, "_source_urls", List(<<>>))
  IN IF Truthy(src) /\ ~(\E i \in 1..Len(urls.v) : urls.v[i] = src)
     THEN SetItem(existing, "_source_urls", List(Append(urls.v, src)))
     ELSE existing

\* Mutant: a later duplicate's value replaces a value already present.
Backfill_Overwrites(existing, d, field) ==
  IF Truthy(Get(d, field, None))
  THEN SetItem(existing, field, Get(d, field, None))
  ELSE existing

\* Lines 89-90 and 91-92: fill one blank field from the later duplicate d.
Backfill(existing, d, field) ==
  IF ~Truthy(Get(existing, field, None)) /\ Truthy(Get(d, field, None))
  THEN SetItem(existing, field, Get(d, field, None))
  ELSE existing

\* Lines 83-92: merge the later duplicate d into the retained record.
MergeDuplicate(existing, d, src) ==
  LET e1 == AddSourceUrl(existing, src)
      e2 == Backfill(e1, d, "special_offers")
      e3 == Backfill(e2, d, "terms_conditions")
      e4 == Backfill(e3, d, "category")
  IN Backfill(e4, d, "features")

\* Mutant: a new key is put in front of the keys seen so far.
DedupeStep_NewestFirst(seen, p) ==
  IF ~IsDict(p) THEN seen
  ELSE LET d == p.v
           src == Get(d, "source_url", None)
           provider == _domain_from_url(src)
           key == DedupeKey(d)
           idx == SeenIndex(seen, key)
       IN IF idx = 0
          THEN <<[key |-> key, rec |-> NewEntry(d, src, provider)]>> \o seen
          ELSE [seen EXCEPT ![idx].rec = MergeDuplicate(seen[idx].rec, d, src)]

\* Lines 62-92: one iteration of the loop over products.
DedupeStep(seen, p) ==
  IF ~IsDict(p) THEN seen
  ELSE LET d == p.v
           src == Get(d, "source_url", None)
           provider == _domain_from_url(src)
           key == DedupeKey(d)
           idx == SeenIndex(seen, key)
       IN IF idx = 0
          THEN Append(seen, [key |-> key, rec |-> NewEntry(d, src, provider)])
          ELSE [seen EXCEPT ![idx].rec = MergeDuplicate(seen[idx].rec, d, src)]

RECURSIVE DedupeLoop(_, _)
DedupeLoop(seen, products) ==
  IF products = <<>> THEN seen
  ELSE DedupeLoop(DedupeStep(seen, Head(products)), Tail(products))

\* "\n".join(urls) for a list of Str values.
RECURSIVE JoinNewline(_)
JoinNewline(urls) ==
  IF urls = <<>> THEN <<>>
  ELSE IF Len(urls) = 1 THEN urls[1].v
  ELSE urls[1].v \o <<"\n">> \o JoinNewline(Tail(urls))

\* Lines 96-99: replace source_url by the merged URLs.
MergeSourceUrl(rec) ==
  LET urls == Get(rec, "_source_urls", None)
  IN IF Truthy(urls)
     THEN SetItem(rec, "source_url", Str(JoinNewline(urls.v)))
     ELSE rec

Max(a, b) == IF a >= b THEN a ELSE b

CountDicts(products) == Cardinality({i \in 1..Len(products) : IsDict(products[i])})

\* dedupe_products(products) -> (deduped, stats)
dedupe_products(products) ==
  IF products = <<>>
  THEN [deduped |-> <<>>,
        stats |-> [input_count |-> 0, output_count |-> 0, duplicates_removed |-> 0]]
  ELSE LET seen == DedupeLoop(<<>>, products)
           deduped == [i \in 1..Len(seen) |-> Dict(MergeSourceUrl(seen[i].rec))]
           input_count == CountDicts(products)
           output_count == Len(deduped)
       IN [deduped |-> deduped,
           stats |-> [input_count |-> input_count,
                      output_count |-> output_count,
                      duplicates_removed |-> Max(0, input_count - output_count)]]

\* dedupe_products on objects.  A dict is an object: heap[a] is the dict at
\* address a, the input list holds the addresses 1..Len(products), and an
\* assignment existing[field] = ... changes the object `existing` refers to.
\* The only list changed in place (line 85) is the one created at line 80.
\* Mutant: the record retained for a key is the input object itself.
RetainedAddress_InputObject(heap, a) == a

\* Line 78: new_p = dict(p) is an object of its own.
RetainedAddress(heap, a) == Len(heap) + 1

Store(heap, a, d) ==
  IF a > Len(heap) THEN Append(heap, d) ELSE [heap EXCEPT ![a] = d]

\* Lines 62-92 for the object at address a.
DedupeObjectStep(st, a) ==
  LET p == st.heap[a]
  IN IF ~IsDict(p) THEN st
     ELSE LET d == p.v
              src == Get(d, "source_url", None)
              provider == _domain_from_url(src)
              key == DedupeKey(d)
              idx == SeenIndex(st.seen, key)
          IN IF idx = 0
             THEN LET ref == RetainedAddress(st.heap, a)
                  IN [heap |-> Store(st.heap, ref,
                                     Dict(NewEntry(d, src, provider))),
                      seen |-> Append(st.seen, [key |-> key, ref |-> ref])]
             ELSE LET ref == st.seen[idx].ref
                  IN [heap |-> Store(st.heap, ref,
                                     Dict(MergeDuplicate(st.heap[ref].v, d,
                                                         src))),
                      seen |-> st.seen]

RECURSIVE DedupeObjectLoop(_, _, _)
DedupeObjectLoop(st, a, n) ==
  IF a > n THEN st
  ELSE DedupeObjectLoop(DedupeObjectStep(st, a), a + 1, n)

\* Lines 96-99 for the retained objects, in the order of `seen`.
RECURSIVE MergeSourceUrls(_, _)
MergeSourceUrls(heap, seen) ==
  IF seen = <<>> THEN heap
  ELSE LET ref == Head(seen).ref
       IN MergeSourceUrls(Store(heap, ref, Dict(MergeSourceUrl(heap[ref].v))),
                          Tail(seen))

RECURSIVE Refs(_)
Refs(seen) == IF seen = <<>> THEN <<>> ELSE <<Head(seen).ref>> \o Refs(Tail(seen))

\* The heap after dedupe_products(products) and the addresses of the
\* returned records.
dedupe_products_objects(products) ==
  IF products = <<>> THEN [heap |-> products, refs |-> <<>>]
  ELSE LET st == DedupeObjectLoop([heap |-> products, seen |-> <<>>], 1,
                                  Len(products))
       IN [heap |-> MergeSourceUrls(st.heap, st.seen), refs |-> Refs(st.seen)]

\* ------------------------------------------------------------------------
\* agents/competitor_intelligence.py: _prepare_data_for_analysis
\* ------------------------------------------------------------------------
\* products_by_url, a dict in insertion order, is a sequence of entries
\* [url, products]; so are `providers` and the returned analysis_data.
\* Mutant: the host is taken as written.
ViewDomain_KeepsCase(url) == Netloc(url.v)

\* Line 59: urlparse(url).netloc.lower().
ViewDomain(url) == Lower(Netloc(url.v))

ProviderIndex(providers, domain) ==
  IF \E i \in 1..Len(providers) : providers[i].domain = domain
  THEN CHOOSE i \in 1..Len(providers) : providers[i].domain = domain
  ELSE 0

\* Lines 57-63: one iteration of the loop over products_by_url.
GroupStep(providers, entry) ==
  IF entry.products = <<>> THEN providers
  ELSE LET domain == ViewDomain(entry.url)
           idx == ProviderIndex(providers, domain)
       IN IF idx = 0
          THEN Append(providers, [domain |-> domain, urls |-> <<entry.url>>,
                                  products |-> entry.products])
          ELSE [providers EXCEPT ![idx].urls = Append(@, entry.url),
                                 ![idx].products = @ \o entry.products]

RECURSIVE GroupByProvider(_, _)
GroupByProvider(providers, entries) ==
  IF entries = <<>> THEN providers
  ELSE GroupByProvider(GroupStep(providers, Head(entries)), Tail(entries))

\* Lines 67-78: the view of one provider.  The fields computed from the
\* merged products alone (categories, price_range, unique_features) and
\* is_british_gas are left out.
ProviderView(group) ==
  LET r == dedupe_products(group.products)
  IN [provider_domain |-> group.domain,
      urls |-> group.urls,
      product_count |-> Len(r.deduped),
      dedupe |-> r.stats,
      products |-> r.deduped]

RECURSIVE ProviderViews(_)
ProviderViews(groups) ==
  IF groups = <<>> THEN <<>>
  ELSE <<ProviderView(Head(groups))>> \o ProviderViews(Tail(groups))

\* Lines 49-80.
_prepare_data_for_analysis(products_by_url) ==
  ProviderViews(GroupByProvider(<<>>, products_by_url))

\* ------------------------------------------------------------------------
\* Price aggregates: competitor_intelligence.py _calculate_price_range and
\* scraper_agent.py get_summary_statistics
\* ------------------------------------------------------------------------
\* A price is a number of hundredths; the price texts of the model have at
\* most two decimals.  Sums are exact.
IsNumericChar(c) == IsDigit(c) \/ c = "."

RECURSIVE TakeNumeric(_)
TakeNumeric(s) ==
  IF s = <<>> THEN <<>>
  ELSE IF IsNumericChar(Head(s)) THEN <<Head(s)>> \o TakeNumeric(Tail(s))
  ELSE <<>>

\* re.search(r'[\d.]+', s).group(): the first run of digits and dots, <<>>
\* when there is no match.
RECURSIVE FirstNumericRun(_)
FirstNumericRun(s) ==
  IF s = <<>> THEN <<>>
  ELSE IF IsNumericChar(Head(s)) THEN TakeNumeric(s)
  ELSE FirstNumericRun(Tail(s))

DigitVal(c) ==
  CASE c = "0" -> 0 [] c = "1" -> 1 [] c = "2" -> 2 [] c = "3" -> 3
    [] c = "4" -> 4 [] c = "5" -> 5 [] c = "6" -> 6 [] c = "7" -> 7
    [] c = "8" -> 8 [] c = "9" -> 9

RECURSIVE IntOf(_)
IntOf(digits) ==
  IF digits = <<>> THEN 0
  ELSE 10 * IntOf(SubSeq(digits, 1, Len(digits) - 1))
         + DigitVal(digits[Len(digits)])

\* float(run): digits with at most one dot and at least one digit; any
\* other run of digits and dots raises ValueError.
FloatOf(run) ==
  LET dots == {i \in 1..Len(run) : run[i] = "."}
  IN IF Cardinality(dots) > 1 \/ Cardinality(dots) = Len(run)
     THEN [t |-> "raised"]
     ELSE LET dot == IF dots = {} THEN Len(run) + 1
                     ELSE CHOOSE i \in dots : TRUE
              whole == SubSeq(run, 1, dot - 1)
              frac == SubSeq(run, dot + 1, Len(run))
              cents == IF Len(frac) = 0 THEN 0
                       ELSE IF Len(frac) = 1 THEN 10 * DigitVal(frac[1])
                       ELSE IntOf(SubSeq(frac, 1, 2))
          IN Num(100 * IntOf(whole) + cents)

\* Lines 99-102 (and scraper_agent.py lines 166, 170-175): the number taken
\* from one price value: None when the value is falsy or has no digit or
\* dot, raised when float() rejects the run.
NumericPrice(price) ==
  IF ~Truthy(price) THEN None
  ELSE LET run == FirstNumericRun(price.v)
       IN IF run = <<>> THEN None ELSE FloatOf(run)

\* The numbers collected from one field over the products, in order.
RECURSIVE CollectPrices(_, _)
CollectPrices(products, field) ==
  IF products = <<>> THEN [raised |-> FALSE, vals |-> <<>>]
  ELSE LET x == NumericPrice(Get(Head(products).v, field, None))
           rest == CollectPrices(Tail(products), field)
       IN IF x.t = "raised" THEN [raised |-> TRUE, vals |-> <<>>]
          ELSE IF rest.raised THEN rest
          ELSE IF x = None THEN rest
          ELSE [raised |-> FALSE, vals |-> <<x.v>> \o rest.vals]

RECURSIVE SeqSum(_)
SeqSum(vals) == IF vals = <<>> THEN 0 ELSE Head(vals) + SeqSum(Tail(vals))
SeqMin(vals) ==
  CHOOSE x \in {vals[i] : i \in 1..Len(vals)} :
    \A i \in 1..Len(vals) : x <= vals[i]
SeqMax(vals) ==
  CHOOSE x \in {vals[i] : i \in 1..Len(vals)} :
    \A i \in 1..Len(vals) : x >= vals[i]

\* Lines 111-113: min, max and avg of the collected numbers; avg is the
\* quotient sum / n.
PriceAggregate(vals) ==
  IF vals = <<>> THEN [min |-> None, max |-> None, avg |-> None]
  ELSE [min |-> Num(SeqMin(vals)), max |-> Num(SeqMax(vals)),
        avg |-> [t |-> "quotient", sum |-> SeqSum(vals), n |-> Len(vals)]]

\* Lines 90-120.
_calculate_price_range(products) ==
  LET monthly == CollectPrices(products, "price_monthly")
      annual == CollectPrices(products, "price_annual")
  IN IF monthly.raised \/ annual.raised THEN [t |-> "raised"]
     ELSE [t |-> "dict", monthly |-> PriceAggregate(monthly.vals),
           annual |-> PriceAggregate(annual.vals)]

\* scraper_agent.py lines 159-194, for the flat list of all products: the
\* counts of products and the price aggregates.
get_summary_statistics(all_products) ==
  LET monthly == CollectPrices(all_products, "price_monthly")
      annual == CollectPrices(all_products, "price_annual")
  IN IF monthly.raised \/ annual.raised THEN [t |-> "raised"]
     ELSE [t |-> "dict", total_products |-> Len(all_products),
           monthly |-> PriceAggregate(monthly.vals),
           annual |-> PriceAggregate(annual.vals)]

\* ------------------------------------------------------------------------
\* agents/llm_utils.py: validate_extracted_data
\* ------------------------------------------------------------------------
\* Lines 517-526: the record built from one mapping.
ValidatedProduct(d) ==
  [product_name |-> Get(d, "product_name", Str(<<"Unknown">>)),
   price_monthly |-> Get(d, "price_monthly", None),
   price_annual |-> Get(d, "price_annual", None),
   excess |-> Get(d, "excess", None),
   features |-> IF Get(d, "features", None).t = "list"
                THEN Get(d, "features", List(<<>>))
                ELSE List(<<>>),
   special_offers |-> Get(d, "special_offers", None),
   terms_conditions |-> Get(d, "terms_conditions", None),
   category |-> Get(d, "category", Str(<<"General">>))]

\* Mutant: the loop ends at the first element that is not a mapping.
RECURSIVE validate_extracted_data_StopsAtNonMapping(_)
validate_extracted_data_StopsAtNonMapping(products) ==
  IF products = <<>> THEN <<>>
  ELSE IF ~IsDict(Head(products)) THEN <<>>
  ELSE <<Dict(ValidatedProduct(Head(products).v))>>
         \o validate_extracted_data_StopsAtNonMapping(Tail(products))

\* Lines 511-528: the loop over the parsed items.
RECURSIVE validate_extracted_data(_)
validate_extracted_data(products) ==
  IF products = <<>> THEN <<>>
  ELSE IF ~IsDict(Head(products)) THEN validate_extracted_data(Tail(products))
  ELSE <<Dict(ValidatedProduct(Head(products).v))>>
         \o validate_extracted_data(Tail(products))

\* ------------------------------------------------------------------------
\* agents/llm_utils.py: extract_product_data
\* ------------------------------------------------------------------------
\* Line 186: the fixed backoff schedule, in seconds.
BackoffSchedule == <<8, 25, 60>>

Min(a, b) == IF a <= b THEN a ELSE b

\* Mutant: the schedule index is capped one entry too early.
WaitTime_CappedEarly(attempt) == BackoffSchedule[Min(attempt, 1) + 1]

\* Line 186: wait_time = (8, 25, 60)[min(attempt, 2)], attempt 0-based.
WaitTime(attempt) == BackoffSchedule[Min(attempt, 2) + 1]

\* Mutant: off by one, the last attempt is retried as well.
RetryAllowed_OffByOne(attempt, maxRetries) == attempt < maxRetries

\* Line 184: a rate-limit error is retried unless it is the last attempt.
RetryAllowed(attempt, maxRetries) == attempt < maxRetries - 1

\* Line 410: re.search(r"[£$€]\s*\d", html_content)
RECURSIVE has_prices(_)
has_prices(h) ==
  IF h = <<>> THEN FALSE
  ELSE IF IsCurrency(Head(h))
          /\ LET rest == LStrip(Tail(h)) IN rest # <<>> /\ IsDigit(Head(rest))
       THEN TRUE
       ELSE has_prices(Tail(h))

\* Words that start, at a word boundary, with product|plan|cover|premium|option.
ProductWordAtoms ==
  {"product", "plan", "Plan", "plans", "cover", "premium", "option", "options"}

\* Line 411: re.search(r"\b(product|plan|cover|premium|option)", html, IGNORECASE)
has_product_words(h) == \E i \in 1..Len(h) : h[i] \in ProductWordAtoms

\* Mutant: the page text is not consulted before the content-retry.
ContentRetryDue_IgnoresPage(products, h) ==
  /\ products.t = "list"
  /\ Len(products.v) = 0

\* Lines 407-413: the content-retry is due for an empty parsed list when the
\* page text has price or product indicators.
ContentRetryDue(products, h) ==
  /\ products.t = "list"
  /\ Len(products.v) = 0
  /\ (has_prices(h) \/ has_product_words(h))

\* Mutant: a parse failure also leads to the content-retry.
ParseDisposition_RetriesParseFailure(products, h) ==
  IF products = None
  THEN IF has_prices(h) \/ has_product_words(h) THEN "retry" ELSE "give_up"
  ELSE IF products.t = "list" /\ Len(products.v) = 0
          /\ (has_prices(h) \/ has_product_words(h))
  THEN "retry"
  ELSE "return"

\* Lines 397-443: what follows the parsing of the first response: give up on
\* a parse failure, make the content-retry, or return the parsed list.
ParseDisposition(products, h) ==
  IF products = None THEN "give_up"
  ELSE IF ContentRetryDue(products, h) THEN "retry"
  ELSE "return"

\* A model response is described by what each parsing helper yields on its
\* text: direct     = _try_parse_json(response_text)
\*       fenced     = outcome of the code-fence strategy (None without a fence)
\*       bounds     = _find_array_bounds found a span
\*       slice      = _try_parse_json(bracket slice)
\*       repaired   = _try_parse_json(_repair_json(bracket slice))
\*       brace      = "[" and "{" both occur in the text
\*       nameKey    = '"product_name"' occurs in the text
\*       scavenged  = _extract_product_objects_from_text(response_text)
\* None stands for Python None (no parse).

\* Lines 317-405: the strategy cascade on the first response.
ParseResponse(r) ==
  LET s1 == r.direct
      s2 == IF s1 = None THEN r.fenced ELSE s1
      s3 == IF s2 = None
            THEN IF r.bounds
                 THEN IF Truthy(r.slice) THEN r.slice ELSE r.repaired
                 ELSE None
            ELSE s2
      s4 == IF s3 = None /\ r.brace /\ r.bounds THEN r.repaired ELSE s3
      s5 == IF s4 = None /\ r.nameKey /\ r.scavenged # <<>>
            THEN List(r.scavenged)
            ELSE s4
  IN s5

\* Lines 426-432: the shorter cascade applied to the content-retry response.
ParseRetryResponse(r) ==
  LET q1 == r.direct
      q2 == IF ~Truthy(q1) /\ r.bounds THEN r.slice ELSE q1
      q3 == IF ~Truthy(q2) THEN List(r.scavenged) ELSE q2
  IN q3

\* ------------------------------------------------------------------------
\* agents/llm_utils.py: _find_array_bounds
\* ------------------------------------------------------------------------
\* A response text is a sequence of atoms, one atom per character position:
\* text[i] of the code is txt[i + 1].  Offsets in results count from 0.
IsQuote(c) == c \in {"\"", "'"}

\* Lines 256-277: one turn of the first loop; i is the offset read.
ScanStep(txt, st) ==
  LET c == txt[st.i + 1]
      next == [st EXCEPT !.i = @ + 1]
  IN CASE st.escape -> [next EXCEPT !.escape = FALSE]
       [] ~st.escape /\ st.in_str ->
            IF c = "\\" THEN [next EXCEPT !.escape = TRUE]
            ELSE [next EXCEPT !.in_str = (c # st.q)]
       [] ~st.escape /\ ~st.in_str ->
            IF IsQuote(c) THEN [next EXCEPT !.in_str = TRUE, !.q = c]
            ELSE IF c = "["
            THEN [next EXCEPT !.candidates = Append(@, st.i)]
            ELSE next

\* Line 255: while i < hi, taken in two halves.
RECURSIVE ScanLoop(_, _, _)
ScanLoop(txt, hi, st) ==
  IF st.i >= hi THEN st
  ELSE IF st.i + 1 = hi THEN ScanStep(txt, st)
  ELSE ScanLoop(txt, hi, ScanLoop(txt, (st.i + hi) \div 2, st))

\* Lines 250-277: the offsets of the "[" that are not inside a string.
ScanCandidates(txt) ==
  ScanLoop(txt, Len(txt),
           [i |-> 0, in_str |-> FALSE, q |-> "", escape |-> FALSE,
            candidates |-> <<>>]).candidates

\* Lines 287-312: one turn of the second loop; the return at depth 0 sets
\* end and leaves the loop.
MatchStep(txt, st) ==
  LET c == txt[st.i + 1]
      next == [st EXCEPT !.i = @ + 1]
  IN CASE st.escape -> [next EXCEPT !.escape = FALSE]
       [] ~st.escape /\ st.in_quote ->
            IF c = "\\" THEN [next EXCEPT !.escape = TRUE]
            ELSE [next EXCEPT !.in_quote = (c # st.quote_char)]
       [] ~st.escape /\ ~st.in_quote ->
            IF c = "[" THEN [next EXCEPT !.depth = @ + 1]
            ELSE IF c = "]"
            THEN IF st.depth = 1
                 THEN [st EXCEPT !.end = st.i, !.i = Len(txt)]
                 ELSE [next EXCEPT !.depth = @ - 1]
            ELSE IF IsQuote(c)
            THEN [next EXCEPT !.in_quote = TRUE, !.quote_char = c]
            ELSE next

\* Line 286: while i < hi, taken in two halves.
RECURSIVE MatchLoop(_, _, _)
MatchLoop(txt, hi, st) ==
  IF st.i >= hi THEN st
  ELSE IF st.i + 1 = hi THEN MatchStep(txt, st)
  ELSE MatchLoop(txt, hi, MatchLoop(txt, (st.i + hi) \div 2, st))

\* Lines 280-314: the offset of the "]" that brings the depth of the "[" at
\* start back to 0, -1 when the text ends first.
MatchBracket(txt, start) ==
  MatchLoop(txt, Len(txt),
            [i |-> start + 1, depth |-> 1, in_quote |-> FALSE,
             quote_char |-> "", escape |-> FALSE, end |-> -1]).end

NoSpan == [s |-> -1, e |-> -1]

\* Lines 279-315: the candidates are tried in order.
RECURSIVE FirstMatched(_, _)
FirstMatched(txt, candidates) ==
  IF candidates = <<>> THEN NoSpan
  ELSE LET start == Head(candidates)
           end == MatchBracket(txt, start)
       IN IF end # -1 THEN [s |-> start, e |-> end]
          ELSE FirstMatched(txt, Tail(candidates))

\* Lines 246-315.
_find_array_bounds(txt) ==
  FirstMatched(txt, ScanCandidates(txt))

\* ------------------------------------------------------------------------
\* agents/llm_utils.py: the parsing helpers of extract_product_data
\* ------------------------------------------------------------------------
\* json.loads and ast.literal_eval read the same grammar of arrays, objects,
\* strings, integers and the null value, with these differences (py = TRUE
\* for literal_eval): strings may be single-quoted, the null value is
\* written None, and a comma may precede a closing bracket.  The keys of the
\* objects in the texts of the model are one atom long.
NoValue == [ok |-> FALSE, v |-> None, rest |-> <<>>]
Value(v, rest) == [ok |-> TRUE, v |-> v, rest |-> rest]

\* The body of a string after its opening quote q.
RECURSIVE ParseStringBody(_, _, _, _)
ParseStringBody(s, q, py, acc) ==
  IF s = <<>> THEN NoValue
  ELSE LET c == Head(s)
       IN IF c = q THEN Value(Str(acc), Tail(s))
          ELSE IF c = "\n" THEN NoValue
          ELSE IF c = "\\"
          THEN IF Len(s) < 2 THEN NoValue
               ELSE IF s[2] \in {"\"", "\\"} \/ (py /\ s[2] = "'")
               THEN ParseStringBody(SubSeq(s, 3, Len(s)), q, py,
                                    Append(acc, s[2]))
               ELSE IF py
               THEN ParseStringBody(SubSeq(s, 3, Len(s)), q, py,
                                    acc \o <<c, s[2]>>)
               ELSE NoValue
          ELSE ParseStringBody(Tail(s), q, py, Append(acc, c))

\* dict(pairs): a later pair replaces an earlier one with the same key.
DictOfPairs(pairs) ==
  Dict([k \in {pairs[i].k : i \in 1..Len(pairs)} |->
          LET last == CHOOSE i \in 1..Len(pairs) :
                        /\ pairs[i].k = k
                        /\ \A j \in (i + 1)..Len(pairs) : pairs[j].k # k
          IN pairs[last].v])

RECURSIVE ParseValue(_, _)
RECURSIVE ParseElements(_, _, _, _)
RECURSIVE ParseMembers(_, _, _, _)

\* The elements after "[" (first) or after a comma.
ParseElements(s0, py, acc, first) ==
  LET s == LStrip(s0)
  IN IF s = <<>> THEN NoValue
     ELSE IF Head(s) = "]" /\ (first \/ py) THEN Value(List(acc), Tail(s))
     ELSE LET r == ParseValue(s, py)
              s2 == LStrip(r.rest)
          IN IF ~r.ok \/ s2 = <<>> THEN NoValue
             ELSE IF Head(s2) = ","
             THEN ParseElements(Tail(s2), py, Append(acc, r.v), FALSE)
             ELSE IF Head(s2) = "]"
             THEN Value(List(Append(acc, r.v)), Tail(s2))
             ELSE NoValue

\* The members after "{" (first) or after a comma.
ParseMembers(s0, py, acc, first) ==
  LET s == LStrip(s0)
  IN IF s = <<>> THEN NoValue
     ELSE IF Head(s) = "}" /\ (first \/ py)
     THEN Value(DictOfPairs(acc), Tail(s))
     ELSE IF ~(Head(s) = "\"" \/ (py /\ Head(s) = "'")) THEN NoValue
     ELSE LET key == ParseStringBody(Tail(s), Head(s), py, <<>>)
              s1 == LStrip(key.rest)
          IN IF ~key.ok \/ key.v.v = <<>> \/ s1 = <<>> \/ Head(s1) # ":"
             THEN NoValue
             ELSE LET r == ParseValue(Tail(s1), py)
                      s2 == LStrip(r.rest)
                      pairs == Append(acc, [k |-> key.v.v[1], v |-> r.v])
                  IN IF ~r.ok \/ s2 = <<>> THEN NoValue
                     ELSE IF Head(s2) = ","
                     THEN ParseMembers(Tail(s2), py, pairs, FALSE)
                     ELSE IF Head(s2) = "}"
                     THEN Value(DictOfPairs(pairs), Tail(s2))
                     ELSE NoValue

ParseValue(s0, py) ==
  LET s == LStrip(s0)
  IN IF s = <<>> THEN NoValue
     ELSE LET c == Head(s)
          IN IF c = "[" THEN ParseElements(Tail(s), py, <<>>, TRUE)
             ELSE IF c = "{" THEN ParseMembers(Tail(s), py, <<>>, TRUE)
             ELSE IF c = "\"" \/ (py /\ c = "'")
             THEN ParseStringBody(Tail(s), c, py, <<>>)
             ELSE IF c = (IF py THEN "None" ELSE "null")
             THEN Value(None, Tail(s))
             ELSE IF IsDigit(c)
             THEN Value(Num(IntOf(TakeDigits(s))),
                        SubSeq(s, Len(TakeDigits(s)) + 1, Len(s)))
             ELSE NoValue

\* json.loads(s) (py = FALSE) and ast.literal_eval(s) (py = TRUE): the value
\* of the whole text, or no value where the call raises.
Whole(r) == IF r.ok /\ LStrip(r.rest) = <<>> THEN r ELSE NoValue
Loads(s, py) == Whole(ParseValue(s, py))

\* The offset of the first character after offset i that is not white
\* space, -1 without one.
NextNonSpace(s, i) ==
  LET later == {k \in (i + 1)..(Len(s) - 1) : ~IsSpace(s[k + 1])}
  IN IF later = {} THEN -1 ELSE CHOOSE k \in later : \A j \in later : k <= j

\* re.sub(r",\s*]", "]", s) at offset i: a match is replaced by the closer,
\* another character is copied.
CommaStep(s, closer, st) ==
  LET c == s[st.i + 1]
      p == NextNonSpace(s, st.i)
  IN IF c = "," /\ p # -1 /\ s[p + 1] = closer
     THEN [i |-> p + 1, out |-> Append(st.out, closer)]
     ELSE [i |-> st.i + 1, out |-> Append(st.out, c)]

RECURSIVE CommaLoop(_, _, _, _)
CommaLoop(s, closer, hi, st) ==
  IF st.i >= hi THEN st
  ELSE IF st.i + 1 = hi THEN CommaStep(s, closer, st)
  ELSE CommaLoop(s, closer, hi,
                 CommaLoop(s, closer, (st.i + hi) \div 2, st))

\* Lines 208-209: re.sub(r",\s*]", "]", s), likewise for "}".
DropTrailingCommas(s, closer) ==
  CommaLoop(s, closer, Len(s), [i |-> 0, out |-> <<>>]).out

\* (?:[^q\\]|\\.)*q read from offset i: a backslash takes the character
\* after it along.
QuotedStep(s, q, st) ==
  LET c == s[st.i + 1]
  IN IF c = q THEN [i |-> Len(s), end |-> st.i]
     ELSE IF c = "\\" THEN [st EXCEPT !.i = @ + 2]
     ELSE [st EXCEPT !.i = @ + 1]

RECURSIVE QuotedLoop(_, _, _, _)
QuotedLoop(s, q, hi, st) ==
  IF st.i >= hi THEN st
  ELSE IF st.i + 1 = hi THEN QuotedStep(s, q, st)
  ELSE QuotedLoop(s, q, hi, QuotedLoop(s, q, (st.i + hi) \div 2, st))

\* The offset of the quote that closes the one at offset open, -1 when the
\* pattern does not match there.
ClosingQuote(s, q, open) ==
  QuotedLoop(s, q, Len(s), [i |-> open + 1, end |-> -1]).end

\* Lines 212-215 at offset i: inside a match newlines become spaces.
NewlineStep(s, q, st) ==
  LET c == s[st.i + 1]
      close == IF c = q THEN ClosingQuote(s, q, st.i) ELSE -1
  IN IF close = -1
     THEN [i |-> st.i + 1, out |-> Append(st.out, c)]
     ELSE [i |-> close + 1,
           out |-> st.out \o [k \in 1..(close - st.i + 1) |->
                                IF s[st.i + k] \in {"\n", "\r"} THEN " "
                                ELSE s[st.i + k]]]

RECURSIVE NewlineLoop(_, _, _, _)
NewlineLoop(s, q, hi, st) ==
  IF st.i >= hi THEN st
  ELSE IF st.i + 1 = hi THEN NewlineStep(s, q, st)
  ELSE NewlineLoop(s, q, hi, NewlineLoop(s, q, (st.i + hi) \div 2, st))

FixNewlinesInQuotes(s, q) ==
  NewlineLoop(s, q, Len(s), [i |-> 0, out |-> <<>>]).out

\* Lines 114, 217: characters below 32 other than newline and tab are
\* dropped; the atom "<ctl>" is such a character.
DropControl(s) == SelectSeq(s, LAMBDA c : c # "<ctl>")

\* Lines 204-218.
_repair_json(s) ==
  LET s1 == Strip(s)
      s2 == DropTrailingCommas(s1, "]")
      s3 == DropTrailingCommas(s2, "}")
      s4 == FixNewlinesInQuotes(s3, "\"")
      s5 == FixNewlinesInQuotes(s4, "'")
  IN DropControl(s5)

\* Lines 228-232 and 238-242: a list as it is, a mapping as a list of one,
\* anything else as None.
AsProducts(v) ==
  IF v.t = "list" THEN v ELSE IF v.t = "dict" THEN List(<<v>>) ELSE None

\* Lines 225-243: the candidates are loaded in turn; the first that loads
\* decides the outcome.
RECURSIVE FirstLoaded(_)
Decide(r, rest) == IF r.ok THEN AsProducts(r.v) ELSE FirstLoaded(rest)
FirstLoaded(candidates) ==
  IF candidates = <<>> THEN None
  ELSE Decide(Loads(Head(candidates).text, Head(candidates).py),
              Tail(candidates))

\* Lines 225, 236: json.loads of s and of the repaired s, then
\* ast.literal_eval of s.
LoadCandidates(s) ==
  <<[text |-> s, py |-> FALSE],
    [text |-> _repair_json(s), py |-> FALSE],
    [text |-> s, py |-> TRUE]>>

\* Lines 222-244, s stripped.
ParseStripped(s) == IF s = <<>> THEN None ELSE FirstLoaded(LoadCandidates(s))

\* Lines 220-244.
_try_parse_json(s0) == ParseStripped(Strip(s0))

\* text.find(pat, from): the first offset >= from where pat occurs, else -1.
Find(txt, pat, from) ==
  LET hits == {k \in from..(Len(txt) - Len(pat)) :
                 SubSeq(txt, k + 1, k + Len(pat)) = pat}
  IN IF hits = {} THEN -1 ELSE CHOOSE k \in hits : \A j \in hits : k <= j

\* text[from:to]
Cut(txt, from, to) == SubSeq(txt, from + 1, to)

\* text.rfind("{", lo, hi): the last offset in lo..hi-1 holding "{".
RFindBrace(txt, lo, hi) ==
  LET hits == {k \in lo..(Min(hi, Len(txt)) - 1) : txt[k + 1] = "{"}
  IN IF hits = {} THEN -1 ELSE CHOOSE k \in hits : \A j \in hits : k >= j

\* Lines 100-106: one turn of the loop over j, counted without regard to
\* strings; the break sets end and leaves the loop.
BraceStep(txt, st) ==
  LET c == txt[st.i + 1]
      next == [st EXCEPT !.i = @ + 1]
  IN IF c = "{" THEN [next EXCEPT !.depth = @ + 1]
     ELSE IF c = "}"
     THEN IF st.depth = 1 THEN [st EXCEPT !.end = st.i, !.i = Len(txt)]
          ELSE [next EXCEPT !.depth = @ - 1]
     ELSE next

RECURSIVE BraceLoop(_, _, _)
BraceLoop(txt, hi, st) ==
  IF st.i >= hi THEN st
  ELSE IF st.i + 1 = hi THEN BraceStep(txt, st)
  ELSE BraceLoop(txt, hi, BraceLoop(txt, (st.i + hi) \div 2, st))

\* Lines 97-106: the offset of the "}" matching the "{" at start, -1
\* without one.
MatchBrace(txt, start) ==
  BraceLoop(txt, Len(txt), [i |-> start, depth |-> 0, end |-> -1]).end

NameKey == <<"\"", "product_name", "\"">>

\* Lines 110-119: the candidate object, if it parses to a mapping with a
\* non-null product_name.
KeptObject(obj) ==
  IF obj.ok /\ obj.v.t = "dict" /\ Get(obj.v.v, "product_name", None) # None
  THEN <<obj.v>>
  ELSE <<>>
ScavengedObject(candidate) ==
  KeptObject(Loads(DropControl(DropTrailingCommas(
                     DropTrailingCommas(candidate, "}"), "]")), FALSE))

\* Lines 86-119: the loop from offset i on.
RECURSIVE ScavengeFrom(_, _, _)
ScavengeFrom(txt, i, out) ==
  IF i >= Len(txt) THEN out
  ELSE LET idx == Find(txt, NameKey, i)
           start == RFindBrace(txt, i, idx + 1)
           end == MatchBrace(txt, start)
       IN IF idx = -1 THEN out
          ELSE IF start = -1 THEN ScavengeFrom(txt, idx + 1, out)
          ELSE IF end = -1 THEN ScavengeFrom(txt, start + 1, out)
          ELSE ScavengeFrom(txt, end + 1,
                            out \o ScavengedObject(Cut(txt, start, end + 1)))

\* Lines 78-120.
_extract_product_objects_from_text(txt) == ScavengeFrom(txt, 0, <<>>)

\* The atom of the three backticks that open and close a code block.
Fence == "<fence>"

\* Lines 334-339: the text between the marker and the next fence, without
\* a leading "json".
CodeBlock(txt, marker) ==
  LET after == Cut(txt, Find(txt, marker, 0) + Len(marker), Len(txt))
      close == Find(after, <<Fence>>, 0)
      block == Strip(IF close = -1 THEN after ELSE Cut(after, 0, close))
  IN IF block # <<>> /\ Head(block) = "json" THEN Strip(Tail(block))
     ELSE block

\* Lines 329-354: for each marker the text holds, the block and then the
\* repaired block are candidates.
RECURSIVE FenceCandidates(_, _)
FenceCandidates(txt, markers) ==
  IF markers = <<>> THEN <<>>
  ELSE LET block == CodeBlock(txt, Head(markers))
       IN (IF Find(txt, Head(markers), 0) = -1 THEN <<>>
           ELSE <<block, _repair_json(block)>>)
          \o FenceCandidates(txt, Tail(markers))

\* The parse of the first candidate that has one, None when there is none.
RECURSIVE FirstParsed(_)
ParsedOr(out, rest) == IF out # None THEN out ELSE FirstParsed(rest)
FirstParsed(candidates) ==
  IF candidates = <<>> THEN None
  ELSE ParsedOr(_try_parse_json(Head(candidates)), Tail(candidates))

\* Lines 327-357: the markers "```json" and "```" in turn; the first parse
\* that succeeds ends the loop.
FenceStrategy(txt) ==
  FirstParsed(FenceCandidates(txt, <<<<Fence, "json">>, <<Fence>>>>))

\* What the parsing helpers yield on a response text (lines 321-390):
\* parsed holds the parses of the text, of the bracket slice and of the
\* repaired slice.
Described(txt, found, parsed) ==
  [direct |-> parsed[1],
   fenced |-> FenceStrategy(txt),
   bounds |-> found,
   slice |-> parsed[2],
   repaired |-> parsed[3],
   brace |-> (\E i \in 1..Len(txt) : txt[i] = "[")
               /\ (\E i \in 1..Len(txt) : txt[i] = "{"),
   nameKey |-> Find(txt, NameKey, 0) # -1,
   scavenged |-> _extract_product_objects_from_text(txt)]

Parses(texts) == [k \in DOMAIN texts |-> _try_parse_json(texts[k])]

\* Lines 363-364, 383: the slice exists when start != -1 and end > start.
DescribeSlice(txt, found, candidate) ==
  Described(txt, found,
            IF found THEN Parses(<<txt, candidate, _repair_json(candidate)>>)
            ELSE Parses(<<txt, <<>>, <<>>>>))

DescribeSpan(txt, span) ==
  DescribeSlice(txt, span.s # -1 /\ span.e > span.s,
                SubSeq(txt, Max(span.s, 0) + 1, span.e + 1))

Describe(txt) == DescribeSpan(txt, _find_array_bounds(txt))

\* ------------------------------------------------------------------------
\* agents/llm_utils.py: _build_extraction_input
\* ------------------------------------------------------------------------
\* A page text is a sequence of runs [k, n]: n characters of kind k, where
\* "x" is text that no signal pattern matches, "w" is whitespace and "m" is
\* one match of a signal pattern (a price such as "£5").  Adjacent runs of
\* the kinds "x" and "w" are one run.  Offsets count characters from 0.
Run(k, n) == [k |-> k, n |-> n]

RECURSIVE TextLen(_)
TextLen(t) == IF t = <<>> THEN 0 ELSE Head(t).n + TextLen(Tail(t))

Fuse(t, r) ==
  IF r.n = 0 THEN t
  ELSE IF t # <<>> /\ t[Len(t)].k = r.k /\ r.k # "m"
  THEN [t EXCEPT ![Len(t)].n = @ + r.n]
  ELSE Append(t, r)

RECURSIVE Concat(_, _)
Concat(a, b) == IF b = <<>> THEN a ELSE Concat(Fuse(a, Head(b)), Tail(b))

\* text[s:e]; half a match is ordinary text.
RECURSIVE SliceFrom(_, _, _, _)
SliceFrom(t, at, s, e) ==
  IF t = <<>> \/ at >= e THEN <<>>
  ELSE LET r == Head(t)
           lo == Max(at, s)
           hi == Min(at + r.n, e)
           piece == IF hi <= lo THEN <<>>
                    ELSE IF r.k = "m" /\ hi - lo < r.n
                    THEN <<Run("x", hi - lo)>>
                    ELSE <<Run(r.k, hi - lo)>>
       IN Concat(piece, SliceFrom(Tail(t), at + r.n, s, e))

Slice(t, s, e) == SliceFrom(t, 0, s, e)

\* Lines 29-36, 44: the (m.start(), m.end()) of re.finditer over the patterns.
RECURSIVE MatchSpans(_, _)
MatchSpans(t, at) ==
  IF t = <<>> THEN <<>>
  ELSE LET r == Head(t)
           rest == MatchSpans(Tail(t), at + r.n)
       IN IF r.k = "m" THEN <<[s |-> at, e |-> at + r.n]>> \o rest ELSE rest

\* Lines 25, 39, 40: the prefix always kept and the margins around a match.
PrefixChars == 8000
WindowPre == 1200
WindowPost == 2400

\* Line 25: prefix_len.  (Mutant first: the prefix loses its last character.)
PrefixLen_DropsLastChar(t) == Min(PrefixChars, TextLen(t) - 1)
PrefixLen(t) == Min(PrefixChars, TextLen(t))

\* Lines 26, 42-47: the prefix window, then one window per match.
RECURSIVE MatchWindows(_, _)
MatchWindows(ms, n) ==
  IF ms = <<>> THEN <<>>
  ELSE <<[s |-> Max(0, Head(ms).s - WindowPre),
          e |-> Min(n, Head(ms).e + WindowPost)]>>
       \o MatchWindows(Tail(ms), n)

Windows(t) ==
  <<[s |-> 0, e |-> PrefixLen(t)]>>
  \o MatchWindows(MatchSpans(t, 0), TextLen(t))

\* Line 52: windows.sort(key=start), a stable sort.
RECURSIVE InsertByStart(_, _)
InsertByStart(sorted, w) ==
  IF sorted = <<>> THEN <<w>>
  ELSE IF w.s < Head(sorted).s THEN <<w>> \o sorted
  ELSE <<Head(sorted)>> \o InsertByStart(Tail(sorted), w)

RECURSIVE SortByStart(_)
SortByStart(ws) ==
  IF ws = <<>> THEN <<>>
  ELSE InsertByStart(SortByStart(SubSeq(ws, 1, Len(ws) - 1)), ws[Len(ws)])

\* Lines 53-58: windows that overlap or touch become one.
RECURSIVE MergeWindows(_, _)
MergeWindows(merged, ws) ==
  IF ws = <<>> THEN merged
  ELSE LET w == Head(ws)
           last == Len(merged)
       IN IF merged = <<>> \/ w.s > merged[last].e
          THEN MergeWindows(Append(merged, w), Tail(ws))
          ELSE MergeWindows([merged EXCEPT ![last].e = Max(@, w.e)],
                            Tail(ws))

MergedWindows(t) == MergeWindows(<<>>, SortByStart(Windows(t)))

\* Line 67: not chunk.strip().
IsBlank(chunk) == \A i \in 1..Len(chunk) : chunk[i].k = "w"

\* Lines 61-73: chunks are taken in order until max_chars characters of
\* page text are collected; the last one is cut to what is left.
RECURSIVE TakeChunks(_, _, _, _, _)
TakeChunks(t, merged, max_chars, parts, total) ==
  IF merged = <<>> \/ total >= max_chars THEN parts
  ELSE LET w == Head(merged)
           chunk == Slice(t, w.s, w.e)
           remaining == max_chars - total
           cut == IF TextLen(chunk) > remaining
                  THEN Slice(chunk, 0, remaining)
                  ELSE chunk
       IN IF IsBlank(chunk)
          THEN TakeChunks(t, Tail(merged), max_chars, parts, total)
          ELSE TakeChunks(t, Tail(merged), max_chars, Append(parts, cut),
                          total + TextLen(cut))

\* Line 75: "\n\n<!-- SNIP -->\n\n", 17 characters.
SnipMarker == <<Run("w", 2), Run("x", 13), Run("w", 2)>>

RECURSIVE JoinSnip(_)
JoinSnip(parts) ==
  IF parts = <<>> THEN <<>>
  ELSE IF Len(parts) = 1 THEN parts[1]
  ELSE Concat(Concat(parts[1], SnipMarker), JoinSnip(Tail(parts)))

WindowParts(html, max_chars) ==
  TakeChunks(html, MergedWindows(html), max_chars, <<>>, 0)

\* Lines 10-75.
_build_extraction_input(html, max_chars) ==
  IF html = <<>> THEN <<>>
  ELSE JoinSnip(WindowParts(html, max_chars))

\* ------------------------------------------------------------------------
\* Inputs of the model
\* ------------------------------------------------------------------------
\* max_retries default of extract_product_data (line 123) and the fixed
\* inter-request delay in seconds (scraper_agent.py line 143).
DefaultMaxRetries == 3
InterRequestDelaySeconds == 2

U1 == Str(<<"https:", "//", "Ex.com", "/", "a">>)
U2 == Str(<<"https:", "//", "ex.com", "/", "b">>)
U3 == Str(<<"https:", "//", "b.com", "/", "a">>)
UrlSet == {U1, U2, U3}

SeqsUpTo(S, n) == UNION {[1..k -> S] : k \in 0..n}

EmptyDict == [x \in {} |-> None]

\* url_to_competitor: absent, or labels for some URLs (one of them empty).
CompetitorMaps ==
  {None,
   Dict([x \in {U1, U3} |-> IF x = U1 THEN Str(<<"Acme">>) ELSE Str(<<>>)])}

\* Page texts returned by the fetch.
PageEmpty == <<>>
PagePlain == <<"airplane", " ", "x">>
PageCurrencyOnly == <<"$", "x">>
PagePriced == <<"from", " ", "£", " ", "1", "2">>
PageWords == <<"our", " ", "plans">>
HtmlPages == {PageEmpty, PagePlain, PageCurrencyOnly, PagePriced, PageWords}

\* Raw items a model response may carry.
RawPlanA ==
  Dict([product_name |-> Str(<<"Plan", " ", "A">>),
        price_monthly |-> Str(<<"£", "1", "5", ".", "5", "0">>),
        features |-> List(<<Str(<<"f">>)>>),
        category |-> Str(<<"Boiler">>)])
RawNulls ==
  Dict([product_name |-> None, features |-> None, category |-> None])
\* A record in which the model also wrote provenance fields of its own.
RawPlanB ==
  Dict([product_name |-> Str(<<"Plan", " ", "B">>),
        price_monthly |-> Str(<<"£", "1", "5", ".", "5", "0">>),
        source_url |-> Str(<<"https:", "//", "other.example">>),
        competitor |-> Str(<<"Model">>)])

NoParse ==
  [direct |-> None, fenced |-> None, bounds |-> FALSE, slice |-> None,
   repaired |-> None, brace |-> FALSE, nameKey |-> FALSE, scavenged |-> <<>>]

\* 'Sorry, I cannot help.'
RespGarbage == NoParse
\* '[]'
RespEmpty == [NoParse EXCEPT !.direct = List(<<>>), !.bounds = TRUE,
                             !.slice = List(<<>>), !.repaired = List(<<>>)]
\* '[{"product_name": "Plan A", ...}, 7]'
RespRecords ==
  [NoParse EXCEPT !.direct = List(<<RawPlanA, Num(7)>>), !.bounds = TRUE,
                  !.slice = List(<<RawPlanA, Num(7)>>),
                  !.repaired = List(<<RawPlanA, Num(7)>>),
                  !.brace = TRUE, !.nameKey = TRUE, !.scavenged = <<RawPlanA>>]
\* '[7]'
RespNonMapping == [NoParse EXCEPT !.direct = List(<<Num(7)>>), !.bounds = TRUE,
                                  !.slice = List(<<Num(7)>>),
                                  !.repaired = List(<<Num(7)>>)]
\* 'Here you go: []'
RespProseEmpty == [NoParse EXCEPT !.bounds = TRUE, !.slice = List(<<>>),
                                  !.repaired = List(<<>>)]
\* '```json\n[{"product_name": null, "features": null, "category": null}]\n```'
RespFenced ==
  [NoParse EXCEPT !.fenced = List(<<RawNulls>>), !.bounds = TRUE,
                  !.slice = List(<<RawNulls>>), !.repaired = List(<<RawNulls>>),
                  !.brace = TRUE, !.nameKey = TRUE]
\* '[{"product_name": "Plan B", "price_monthly": "£15.50", "source_url":
\*   "https://other.example", "competitor": "Model"}, {"product_name": "C'
RespTruncated ==
  [NoParse EXCEPT !.brace = TRUE, !.nameKey = TRUE, !.scavenged = <<RawPlanB>>]

Responses ==
  {RespGarbage, RespEmpty, RespRecords, RespNonMapping, RespProseEmpty,
   RespFenced, RespTruncated}

\* Outcomes of requests.get / raise_for_status that are not a page.
FetchFailures == {"http_403", "http_error", "request_exception", "exception"}

\* Outcomes of client.messages.create that are not a message.
RetryErrorKinds == {"rate_limit", "api_error", "exception"}

\* ------------------------------------------------------------------------
\* State
\* ------------------------------------------------------------------------
VARIABLES
  pc,                \* position of the running call
  caller,            \* which entry point this behaviour exercises
  urls,              \* scrape_multiple_urls: urls
  url_to_competitor, \* scrape_multiple_urls: url_to_competitor
  index,             \* scrape_multiple_urls: loop index (0-based)
  competitor_name,   \* scrape_multiple_urls: competitor_name of this URL
  all_results,       \* scrape_multiple_urls: all_results
  errors,            \* scrape_multiple_urls: errors
  self_errors,       \* ScraperAgent.errors
  failed,            \* history: URLs whose fetch or extraction failed
  extracted_data,    \* ScraperAgent.extracted_data
  html_content,      \* extract_product_data: html_content
  max_retries,       \* extract_product_data: max_retries
  attempt,           \* extract_product_data: attempt of the retry loop
  wait_time,         \* extract_product_data: wait_time of the pending sleep
  sleeps,            \* history: backoff sleeps of this extraction call
  calls,             \* history: outcomes of the model calls of this call
  response,          \* the first successful model response
  response_retry,    \* the content-retry response
  ret,               \* what the last extract_product_data call returned
  clock,             \* seconds slept so far
  fn_in,             \* argument of the pure function under check
  fn_out,            \* its result
  trace,             \* history: what the coordinator did, per input position
  url_calls          \* history: model calls made for the URL in progress

coordVars ==
  <<urls, url_to_competitor, index, competitor_name, all_results, errors,
    self_errors, failed, extracted_data>>
extractVars ==
  <<html_content, max_retries, attempt, wait_time, sleeps, calls, response,
    response_retry, ret>>
fnVars == <<fn_in, fn_out>>
histVars == <<trace, url_calls>>
vars == <<pc, caller, coordVars, extractVars, clock, fnVars, histVars>>

Pending == [t |-> "pending"]
Raised == [t |-> "raised"]

InitCoord ==
  /\ index = 0
  /\ competitor_name = None
  /\ all_results = EmptyDict
  /\ errors = <<>>
  /\ self_errors = <<>>
  /\ failed = <<>>
  /\ extracted_data = EmptyDict
  /\ trace = <<>>
  /\ url_calls = 0

InitExtract ==
  /\ attempt = 0
  /\ wait_time = 0
  /\ sleeps = <<>>
  /\ calls = <<>>
  /\ response = None
  /\ response_retry = None
  /\ ret = Pending

\* ------------------------------------------------------------------------
\* agents/scraper_agent.py: scrape_single_url after the fetch
\* ------------------------------------------------------------------------
\* Mutant: the competitor field is written whenever a label was looked up,
\* an empty one included.
TagProduct_TagsEmptyLabel(product, url, competitor) ==
  LET p1 == SetItem(product.v, "source_url", url)
  IN Dict(IF competitor # None THEN SetItem(p1, "competitor", competitor)
          ELSE p1)

\* Lines 102-105: tag one validated product with its provenance.
TagProduct(product, url, competitor) ==
  LET p1 == SetItem(product.v, "source_url", url)
  IN Dict(IF Truthy(competitor) THEN SetItem(p1, "competitor", competitor)
          ELSE p1)

TagProducts(products, url, competitor) ==
  [i \in 1..Len(products) |-> TagProduct(products[i], url, competitor)]

\* Mutant: a failed fetch is dropped without an error message.
FetchFailedResult_Silent(url) ==
  [result |-> None, error |-> None]

\* Lines 82-84: (None, error) of a failed or empty fetch.
FetchFailedResult(url) ==
  [result |-> None,
   error |-> Str(<<"Could not fetch content from ">> \o url.v)]

\* Mutant: an exception of the extraction yields neither result nor error.
SingleResult_SwallowsException(url, competitor, ext) ==
  IF ext = Raised
  THEN [result |-> None, error |-> None]
  ELSE IF ~Truthy(ext)
  THEN [result |-> None,
        error |-> Str(<<"No products extracted from ">> \o url.v)]
  ELSE [result |->
          Dict([url |-> url,
                products |-> List(TagProducts(validate_extracted_data(ext.v),
                                              url, competitor))]),
        error |-> None]

\* Lines 87-108: (result, error) of scrape_single_url once extraction ended
\* with ext, a list or a raised exception.
SingleResult(url, competitor, ext) ==
  IF ext = Raised
  THEN [result |-> None,
        error |-> Str(<<"Error during extraction from ">> \o url.v)]
  ELSE IF ~Truthy(ext)
  THEN [result |-> None,
        error |-> Str(<<"No products extracted from ">> \o url.v)]
  ELSE [result |->
          Dict([url |-> url,
                products |-> List(TagProducts(validate_extracted_data(ext.v),
                                              url, competitor))]),
        error |-> None]

\* Lines 134-138: the coordinator records the pair for this URL.
RecordResult(url, pair) ==
  /\ all_results' = IF Truthy(pair.result)
                    THEN SetItem(all_results, url, pair.result.v.products)
                    ELSE all_results
  /\ errors' = IF Truthy(pair.error)
               THEN Append(errors, [url |-> url, error |-> pair.error])
               ELSE errors

\* Mutant: the list is walked from its end.
CurrentUrl_FromTheEnd == urls[Len(urls) - index]

\* Line 124: the url of enumerate(urls) at this index.
CurrentUrl == urls[index + 1]

\* One step of the coordinator: what it did, at which index, for which URL.
Event(e) == [e |-> e, i |-> index, url |-> CurrentUrl]

\* Mutant: the delay also follows the last URL.
DelayDue_AfterEveryUrl == index < Len(urls)

\* Line 142: the delay is due after every URL but the last.
DelayDue == index < Len(urls) - 1

\* extract_product_data ends with ext.  Called by the coordinator, the rest
\* of scrape_single_url and the recording of its result follow at once.
Return(ext, newCalls, newResponse, newRetry) ==
  /\ ret' = ext
  /\ url_calls' = Len(newCalls)
  /\ UNCHANGED <<max_retries, wait_time>>
  /\ IF caller = "scrape"
     THEN /\ RecordResult(CurrentUrl,
                          SingleResult(CurrentUrl, competitor_name, ext))
          /\ trace' = Append(trace, Event("recorded"))
          /\ failed' = IF ext = Raised \/ ext = List(<<>>)
                       THEN Append(failed, CurrentUrl)
                       ELSE failed
          /\ pc' = "after_url"
          /\ html_content' = <<>>
          /\ attempt' = 0
          /\ sleeps' = <<>>
          /\ calls' = <<>>
          /\ response' = None
          /\ response_retry' = None
     ELSE /\ pc' = "done"
          /\ calls' = newCalls
          /\ response' = newResponse
          /\ response_retry' = newRetry
          /\ UNCHANGED <<all_results, errors, failed, html_content, attempt,
                         sleeps, trace>>
  /\ UNCHANGED <<caller, urls, url_to_competitor, index, competitor_name,
                 self_errors, extracted_data, clock, fnVars>>

Call(phase, outcome) == [phase |-> phase, outcome |-> outcome]

\* Lines 164-173 and 200-443: a model call of the retry loop succeeds; the
\* response is parsed and either returned or followed by the content-retry.
ModelCallOk ==
  /\ pc = "call"
  /\ attempt < max_retries
  /\ \E r \in Responses :
       LET products == ParseResponse(r)
           log == Append(calls, Call("loop", "ok"))
           next == ParseDisposition(products, html_content)
       IN IF next = "give_up"
          THEN Return(List(<<>>), log, r, None)
          ELSE IF next = "retry"
          THEN /\ pc' = "retry_call"
               /\ calls' = log
               /\ url_calls' = Len(log)
               /\ response' = r
               /\ UNCHANGED <<caller, coordVars, html_content, max_retries,
                              attempt, wait_time, sleeps, response_retry,
                              ret, clock, fnVars, trace>>
          ELSE Return(products, log, r, None)

\* Lines 174-191: a rate-limit error that is retried after a backoff.
ModelCallRateLimited ==
  /\ pc = "call"
  /\ attempt < max_retries
  /\ RetryAllowed(attempt, max_retries)
  /\ pc' = "backoff"
  /\ wait_time' = WaitTime(attempt)
  /\ calls' = Append(calls, Call("loop", "rate_limit"))
  /\ url_calls' = url_calls + 1
  /\ UNCHANGED <<caller, coordVars, html_content, max_retries, attempt,
                 sleeps, response, response_retry, ret, clock, fnVars, trace>>

\* Line 191: time.sleep(wait_time), then the next iteration of the loop.
Backoff ==
  /\ pc = "backoff"
  /\ clock' = clock + wait_time
  /\ sleeps' = Append(sleeps, wait_time)
  /\ attempt' = attempt + 1
  /\ pc' = "call"
  /\ UNCHANGED <<caller, coordVars, html_content, max_retries, wait_time,
                 calls, response, response_retry, ret, fnVars, histVars>>

\* Lines 192-198: a rate-limit error on the last attempt.
ModelCallRateLimitExhausted ==
  /\ pc = "call"
  /\ attempt < max_retries
  /\ ~RetryAllowed(attempt, max_retries)
  /\ Return(List(<<>>), Append(calls, Call("loop", "rate_limit")), None, None)

\* Lines 192-198: an API error that is not a rate limit.
ModelCallApiError ==
  /\ pc = "call"
  /\ attempt < max_retries
  /\ Return(List(<<>>), Append(calls, Call("loop", "api_error")), None, None)

\* Lines 165-174: an exception that is not an anthropic.APIError is not
\* caught by the retry loop and leaves extract_product_data.
ModelCallRaises ==
  /\ pc = "call"
  /\ attempt < max_retries
  /\ Return(Raised, Append(calls, Call("loop", "exception")), None, None)

\* Lines 164, 202, 448-450: with no attempt allowed the loop body never runs,
\* `message` is unbound and the resulting error is absorbed.
NoAttempt ==
  /\ pc = "call"
  /\ attempt >= max_retries
  /\ Return(List(<<>>), calls, None, None)

\* Lines 416-436: the content-retry call succeeds and its response is parsed.
RetryCallOk ==
  /\ pc = "retry_call"
  /\ \E r \in Responses :
       Return(ParseRetryResponse(r), Append(calls, Call("retry", "ok")),
              response, r)

\* Mutant: a failed content-retry call is backed off and the loop resumes.
RetryCallFails_BacksOff ==
  /\ pc = "retry_call"
  /\ pc' = "backoff"
  /\ wait_time' = WaitTime(attempt)
  /\ \E kind \in RetryErrorKinds :
       calls' = Append(calls, Call("retry", kind))
  /\ url_calls' = url_calls + 1
  /\ UNCHANGED <<caller, coordVars, html_content, max_retries, attempt,
                 sleeps, response, response_retry, ret, clock, fnVars, trace>>

\* Lines 437-438, 443: the content-retry call fails; products stays empty.
RetryCallFails ==
  /\ pc = "retry_call"
  /\ \E kind \in RetryErrorKinds :
       Return(List(<<>>), Append(calls, Call("retry", kind)), response, None)

\* ------------------------------------------------------------------------
\* agents/scraper_agent.py: scrape_multiple_urls
\* ------------------------------------------------------------------------
\* Lines 124-130: next loop iteration: progress callback, competitor lookup.
BeginUrl ==
  /\ pc = "loop"
  /\ index < Len(urls)
  /\ competitor_name' =
       IF Truthy(url_to_competitor)
       THEN Get(url_to_competitor.v, CurrentUrl, None)
       ELSE None
  /\ trace' = Append(trace, Event("progress"))
  /\ pc' = "fetch"
  /\ UNCHANGED <<caller, urls, url_to_competitor, index, all_results, errors,
                 self_errors, failed, extracted_data, extractVars, clock,
                 fnVars, url_calls>>

\* Lines 43-70, 81-84, 134-138: the fetch fails; fetch_url_content notes the
\* error on self.errors and returns None, the URL gets its error entry.
\* The pair (url, error_msg) is a record of its two positions.
FetchFails ==
  /\ pc = "fetch"
  /\ \E kind \in FetchFailures :
       self_errors' = Append(self_errors, [item0 |-> CurrentUrl,
                                          item1 |-> kind])
  /\ RecordResult(CurrentUrl, FetchFailedResult(CurrentUrl))
  /\ failed' = Append(failed, CurrentUrl)
  /\ trace' = trace \o <<Event("fetch_failed"),
                          Event("recorded")>>
  /\ pc' = "after_url"
  /\ UNCHANGED <<caller, urls, url_to_competitor, index, competitor_name,
                 extracted_data, extractVars, clock, fnVars, url_calls>>

\* Lines 43-48, 81-84: the fetch returns an empty body, which counts as a
\* failed fetch.
FetchEmpty ==
  /\ pc = "fetch"
  /\ PageEmpty \in HtmlPages
  /\ RecordResult(CurrentUrl, FetchFailedResult(CurrentUrl))
  /\ failed' = Append(failed, CurrentUrl)
  /\ trace' = trace \o <<Event("fetch_empty"),
                          Event("recorded")>>
  /\ pc' = "after_url"
  /\ UNCHANGED <<caller, urls, url_to_competitor, index, competitor_name,
                 self_errors, extracted_data, extractVars, clock, fnVars,
                 url_calls>>

\* Lines 43-48, 81-88: the fetch returns a page; extract_product_data starts
\* with the default max_retries.
FetchOk ==
  /\ pc = "fetch"
  /\ \E page \in HtmlPages \ {PageEmpty} : html_content' = page
  /\ max_retries' = DefaultMaxRetries
  /\ attempt' = 0
  /\ wait_time' = 0
  /\ sleeps' = <<>>
  /\ calls' = <<>>
  /\ response' = None
  /\ response_retry' = None
  /\ ret' = Pending
  /\ trace' = Append(trace, Event("fetch_ok"))
  /\ pc' = "call"
  /\ UNCHANGED <<caller, coordVars, clock, fnVars, url_calls>>

\* Lines 142-143: the fixed delay between two URLs.
InterRequestDelay ==
  /\ pc = "after_url"
  /\ DelayDue
  /\ clock' = clock + InterRequestDelaySeconds
  /\ trace' = Append(trace, Event("delay"))
  /\ url_calls' = 0
  /\ index' = index + 1
  /\ pc' = "loop"
  /\ UNCHANGED <<caller, urls, url_to_competitor, competitor_name,
                 all_results, errors, self_errors, failed, extracted_data,
                 extractVars, fnVars>>

\* Line 142: no delay after the last URL.
LastUrlDone ==
  /\ pc = "after_url"
  /\ ~DelayDue
  /\ index' = index + 1
  /\ pc' = "loop"
  /\ url_calls' = 0
  /\ UNCHANGED <<caller, urls, url_to_competitor, competitor_name,
                 all_results, errors, self_errors, failed, extracted_data,
                 extractVars, clock, fnVars, trace>>

\* Lines 145-148: the loop is over; publish the outputs and return them.
FinishBatch ==
  /\ pc = "loop"
  /\ index >= Len(urls)
  /\ extracted_data' = all_results
  /\ self_errors' = errors
  /\ pc' = "returned"
  /\ UNCHANGED <<caller, urls, url_to_competitor, index, competitor_name,
                 all_results, errors, failed, extractVars, clock, fnVars,
                 histVars>>

\* ------------------------------------------------------------------------
\* Pure functions applied to drawn inputs
\* ------------------------------------------------------------------------
DedupeCall ==
  /\ pc = "dedupe_call"
  /\ fn_out' = LET r == dedupe_products(fn_in)
                    o == dedupe_products_objects(fn_in)
                IN [deduped |-> r.deduped, stats |-> r.stats,
                    heap |-> o.heap, refs |-> o.refs]
  /\ pc' = "dedupe_done"
  /\ UNCHANGED <<caller, coordVars, extractVars, clock, fn_in, histVars>>

ValidateCall ==
  /\ pc = "validate_call"
  /\ fn_out' = validate_extracted_data(fn_in)
  /\ pc' = "validate_done"
  /\ UNCHANGED <<caller, coordVars, extractVars, clock, fn_in, histVars>>

\* _build_extraction_input applied to a page, then to its own output with
\* the same max_chars.
WindowCall ==
  /\ pc = "window_call"
  /\ fn_out' = [out |-> _build_extraction_input(fn_in.text, fn_in.max_chars),
                again |-> None]
  /\ pc' = "window_done"
  /\ UNCHANGED <<caller, coordVars, extractVars, clock, fn_in, histVars>>

RewindowCall ==
  /\ pc = "window_done"
  /\ fn_out' = [fn_out EXCEPT
                  !.again = _build_extraction_input(fn_out.out,
                                                    fn_in.max_chars)]
  /\ pc' = "rewindow_done"
  /\ UNCHANGED <<caller, coordVars, extractVars, clock, fn_in, histVars>>

\* Pages: runs of plain text, of whitespace and prices, in any order.
\* max_chars: the two budgets of extract_product_data (lines 138 and 416)
\* and budgets small enough to cut the pages of the model.
ExtractionBudget == 120000
RetryBudget == 50000
PageRuns == {Run("x", 8500), Run("x", 3496), Run("w", 9500), Run("m", 2)}
WindowTexts == {Concat(<<>>, s) : s \in SeqsUpTo(PageRuns, MaxRuns)}
WindowBudgets == {0, 9000, 11500, RetryBudget, ExtractionBudget}

PrepareCall ==
  /\ pc = "prepare_call"
  /\ fn_out' = _prepare_data_for_analysis(fn_in)
  /\ pc' = "prepare_done"
  /\ UNCHANGED <<caller, coordVars, extractVars, clock, fn_in, histVars>>

\* Records as the coordinator hands them to the Reconciliation Engine:
\* validated, tagged with source_url.
NameVariants ==
  {Str(<<"Plan", " ", "A">>), Str(<<" ", "plan", " ", " ", "a">>),
   Str(<<"Plan", " ", "B">>)}
PriceVariants ==
  {Str(<<"£", "1", "5", ".", "5", "0", " ", "a", " ", "month">>),
   Str(<<"£", "1", "5", ".", "5", "0">>), None}
KeyVariants ==
  {<<n, pm>> \in NameVariants \X PriceVariants :
     \/ n = Str(<<"Plan", " ", "A">>) /\ pm # None /\ Len(pm.v) > 6
     \/ n = Str(<<" ", "plan", " ", " ", "a">>) /\ pm = Str(<<"£", "1", "5", ".", "5", "0">>)
     \/ n = Str(<<"Plan", " ", "B">>) /\ pm = None}
MergeProfiles ==
  {[special_offers |-> None, terms_conditions |-> None, category |-> None,
    features |-> List(<<>>)],
   [special_offers |-> Str(<<"x">>), terms_conditions |-> Str(<<>>),
    category |-> Str(<<"Boiler">>), features |-> List(<<Str(<<"f">>)>>)],
   [special_offers |-> Str(<<"y">>), terms_conditions |-> Str(<<"t">>),
    category |-> Str(<<"General">>), features |-> List(<<Str(<<"g">>)>>)]}

TaggedRecord(k, prof, url) ==
  Dict([product_name |-> k[1], price_monthly |-> k[2], price_annual |-> None,
        excess |-> None, features |-> prof.features,
        special_offers |-> prof.special_offers,
        terms_conditions |-> prof.terms_conditions,
        category |-> prof.category, source_url |-> url])

\* Plan A with every profile on every URL, and in its second spelling on
\* the second page of the first provider; plan B with filled fields on one
\* page of each provider.
TaggedRecords ==
  {TaggedRecord(k, prof, url) :
     k \in {x \in KeyVariants : x[2] # None /\ Len(x[2].v) > 6},
     prof \in MergeProfiles, url \in UrlSet}
  \cup
  {TaggedRecord(k, prof, U2) :
     k \in {x \in KeyVariants : x[2] # None /\ Len(x[2].v) <= 6},
     prof \in MergeProfiles}
  \cup
  {TaggedRecord(k, prof, url) :
     k \in {x \in KeyVariants : x[2] = None},
     prof \in {x \in MergeProfiles : Truthy(x.terms_conditions)},
     url \in {U1, U3}}

\* Result maps as scrape_multiple_urls returns them: distinct URLs in the
\* order they were processed, each with the records stored under it, which
\* may be none; the pages of one provider spell plan A differently.
PlainProfile ==
  [special_offers |-> None, terms_conditions |-> None, category |-> None,
   features |-> List(<<>>)]
PageRecords(url) ==
  {TaggedRecord(k, PlainProfile, url) :
     k \in {x \in KeyVariants :
              \/ x[2] = None
              \/ (url = U2) = (x[1] = Str(<<" ", "plan", " ", " ", "a">>))}}
UrlOrders == {s \in SeqsUpTo(UrlSet, Cardinality(UrlSet)) :
                \A i, j \in 1..Len(s) : i # j => s[i] # s[j]}
RECURSIVE MapsOver(_)
MapsOver(s) ==
  IF s = <<>> THEN {<<>>}
  ELSE {<<[url |-> Head(s), products |-> l]>> \o rest :
          l \in SeqsUpTo(PageRecords(Head(s)), MaxPerUrl),
          rest \in MapsOver(Tail(s))}
ResultMaps == UNION {MapsOver(s) : s \in UrlOrders}

\* Items of a parsed model response: mappings with any of the three defaulted
\* keys missing, null or set, and values that are not mappings.
Missing == [t |-> "missing"]
RawChoices ==
  [product_name : {Missing, None, Str(<<"Plan", " ", "A">>)},
   category : {Missing, None, Str(<<"Boiler">>)},
   features : {Missing, None, List(<<Str(<<"f">>)>>), Str(<<"f">>)}]
RawMapping(c) ==
  Dict([k \in {x \in {"product_name", "category", "features"} : c[x] # Missing}
          |-> c[k]])
\* A mapping with none of the schema fields.
RawUnrelated == Dict([note |-> Str(<<"n">>)])
RawItems ==
  {RawMapping(c) : c \in RawChoices} \cup {RawUnrelated, Num(7), None}

\* ------------------------------------------------------------------------
\* Specifications
\* ------------------------------------------------------------------------
\* Spec: one batch of scrape_multiple_urls.
Init ==
  /\ caller = "scrape"
  /\ pc = "loop"
  /\ urls \in SeqsUpTo(UrlSet, MaxUrls)
  /\ url_to_competitor \in CompetitorMaps
  /\ InitCoord
  /\ InitExtract
  /\ html_content = <<>>
  /\ max_retries = DefaultMaxRetries
  /\ clock = 0
  /\ fn_in = <<>>
  /\ fn_out = None

Next ==
  \/ BeginUrl
  \/ FetchFails
  \/ FetchEmpty
  \/ FetchOk
  \/ ModelCallOk
  \/ ModelCallRateLimited
  \/ Backoff
  \/ ModelCallRateLimitExhausted
  \/ ModelCallApiError
  \/ ModelCallRaises
  \/ RetryCallOk
  \/ RetryCallFails
  \/ InterRequestDelay
  \/ LastUrlDone
  \/ FinishBatch

Spec == Init /\ [][Next]_vars

\* SpecFair: a batch without competitor labels under the scheduling of a
\* sequential program: a step that can be taken is taken (every blocking
\* call returns or times out).
InitFair ==
  /\ Init
  /\ urls \in SeqsUpTo({U1, U3}, MaxUrls)
  /\ url_to_competitor = None

SpecFair == InitFair /\ [][Next]_vars /\ WF_vars(Next)

\* SpecExtract: one call of extract_product_data with any max_retries.
InitExtractCall ==
  /\ caller = "extract"
  /\ pc = "call"
  /\ urls = <<>>
  /\ url_to_competitor = None
  /\ InitCoord
  /\ InitExtract
  /\ html_content \in HtmlPages
  /\ max_retries \in 0..MaxRetriesArg
  /\ clock = 0
  /\ fn_in = <<>>
  /\ fn_out = None

NextExtract ==
  \/ ModelCallOk
  \/ ModelCallRateLimited
  \/ Backoff
  \/ ModelCallRateLimitExhausted
  \/ ModelCallApiError
  \/ ModelCallRaises
  \/ NoAttempt
  \/ RetryCallOk
  \/ RetryCallFails

SpecExtract == InitExtractCall /\ [][NextExtract]_vars

InitPure ==
  /\ urls = <<>>
  /\ url_to_competitor = None
  /\ InitCoord
  /\ InitExtract
  /\ html_content = <<>>
  /\ max_retries = DefaultMaxRetries
  /\ clock = 0
  /\ fn_out = None

\* SpecDedupe: dedupe_products applied to a list of tagged records.
InitDedupe ==
  /\ caller = "dedupe"
  /\ pc = "dedupe_call"
  /\ fn_in \in SeqsUpTo(TaggedRecords, MaxProducts)
  /\ InitPure

NextDedupe == DedupeCall

SpecDedupe == InitDedupe /\ [][NextDedupe]_vars

\* SpecValidate: validate_extracted_data applied to a parsed response.
InitValidate ==
  /\ caller = "validate"
  /\ pc = "validate_call"
  /\ fn_in \in SeqsUpTo(RawItems, MaxRawItems)
  /\ InitPure

NextValidate == ValidateCall

SpecValidate == InitValidate /\ [][NextValidate]_vars

\* SpecWindow: _build_extraction_input applied to a page and a budget.
InitWindow ==
  /\ caller = "window"
  /\ pc = "window_call"
  /\ fn_in \in [text : WindowTexts, max_chars : WindowBudgets]
  /\ InitPure

NextWindow ==
  \/ WindowCall
  \/ RewindowCall

SpecWindow == InitWindow /\ [][NextWindow]_vars

\* SpecPrepare: _prepare_data_for_analysis applied to a result map.
InitPrepare ==
  /\ caller = "prepare"
  /\ pc = "prepare_call"
  /\ fn_in \in ResultMaps
  /\ InitPure

NextPrepare == PrepareCall

SpecPrepare == InitPrepare /\ [][NextPrepare]_vars

\* SpecMoney: _normalize_money applied to two price or excess values, as
\* the dedupe key of two records applies it (lines 71-73).
MoneyAtoms == {"£", "$", "1", "5", ".", ",", " ", "a"}
MoneyProbes ==
  {None,
   Str(<<"£", "1", "5", ".", "5", "0", " ", "a", " ", "month">>),
   Str(<<"£", "1", "5", ".", "5", "0">>),
   Str(<<"1", "5", ".", "5", "0", " ", "a", " ", "month">>),
   Str(<<"1", "5", ".", "5", "0">>),
   Str(<<"£", "1">>), Str(<<"$", "1">>), Str(<<"1">>), Str(<<" ">>),
   Str(<<"£", " ", "a">>)}
MoneyValues ==
  {Str(s) : s \in SeqsUpTo(MoneyAtoms, MaxMoneyLen)} \cup MoneyProbes

NormalizeMoneyCall ==
  /\ pc = "money_call"
  /\ fn_out' = [a |-> _normalize_money(fn_in.a),
                b |-> _normalize_money(fn_in.b)]
  /\ pc' = "money_done"
  /\ UNCHANGED <<caller, coordVars, extractVars, clock, fn_in, histVars>>

InitMoney ==
  /\ caller = "money"
  /\ pc = "money_call"
  /\ fn_in \in [a : MoneyValues, b : MoneyProbes]
  /\ InitPure

NextMoney == NormalizeMoneyCall

SpecMoney == InitMoney /\ [][NextMoney]_vars

\* SpecPrices: the two price aggregations applied to a list of records.
MonthlyTexts ==
  {None, Str(<<>>),
   Str(<<"£", "1", "5", ".", "5", "0", " ", "a", " ", "month">>),
   Str(<<"£", "5">>), Str(<<"TBC">>),
   Str(<<"T", ".", "B", ".", "C", ".">>)}
AnnualTexts == {None, Str(<<"£", "9", "9">>), Str(<<"£", "1", ".", "2", ".", "3">>)}
PricedRecords ==
  {Dict([product_name |-> Str(<<"Plan", " ", "A">>), price_monthly |-> m,
         price_annual |-> a]) : m \in MonthlyTexts, a \in AnnualTexts}

PriceRangeCall ==
  /\ pc = "price_call"
  /\ fn_out' = [range |-> _calculate_price_range(fn_in), stats |-> None]
  /\ pc' = "stats_call"
  /\ UNCHANGED <<caller, coordVars, extractVars, clock, fn_in, histVars>>

SummaryStatisticsCall ==
  /\ pc = "stats_call"
  /\ fn_out' = [fn_out EXCEPT !.stats = get_summary_statistics(fn_in)]
  /\ pc' = "price_done"
  /\ UNCHANGED <<caller, coordVars, extractVars, clock, fn_in, histVars>>

InitPrices ==
  /\ caller = "prices"
  /\ pc = "price_call"
  /\ fn_in \in SeqsUpTo(PricedRecords, MaxPriced)
  /\ InitPure

NextPrices ==
  \/ PriceRangeCall
  \/ SummaryStatisticsCall

SpecPrices == InitPrices /\ [][NextPrices]_vars

\* SpecBounds: _find_array_bounds applied to every short text of brackets,
\* quotes, backslashes and other characters.
BracketAtoms == {"[", "]", "\"", "'", "\\", "x"}

FindArrayBoundsCall ==
  /\ pc = "bounds_call"
  /\ fn_out' = _find_array_bounds(fn_in)
  /\ pc' = "bounds_done"
  /\ UNCHANGED <<caller, coordVars, extractVars, clock, fn_in, histVars>>

InitBounds ==
  /\ caller = "bounds"
  /\ pc = "bounds_call"
  /\ fn_in \in SeqsUpTo(BracketAtoms, MaxChars)
  /\ InitPure

NextBounds == FindArrayBoundsCall

SpecBounds == InitBounds /\ [][NextBounds]_vars

\* ------------------------------------------------------------------------
\* The parsing stage of extract_product_data on response texts
\* ------------------------------------------------------------------------
\* json.dumps of a value; the keys of a mapping come in this order.
FieldOrder == <<"product_name", "name", "features">>

RECURSIVE Render(_)
RECURSIVE RenderItems(_)
RECURSIVE RenderFields(_, _)
Render(v) ==
  IF v = None THEN <<"null">>
  ELSE IF v.t = "str" THEN <<"\"">> \o v.v \o <<"\"">>
  ELSE IF v.t = "list" THEN <<"[">> \o RenderItems(v.v) \o <<"]">>
  ELSE <<"{">>
       \o RenderFields(v.v, SelectSeq(FieldOrder,
                                      LAMBDA k : k \in DOMAIN v.v))
       \o <<"}">>

RenderItems(items) ==
  IF items = <<>> THEN <<>>
  ELSE IF Len(items) = 1 THEN Render(items[1])
  ELSE Render(items[1]) \o <<",", " ">> \o RenderItems(Tail(items))

RenderFields(d, keys) ==
  IF keys = <<>> THEN <<>>
  ELSE <<"\"", Head(keys), "\"", ":", " ">> \o Render(d[Head(keys)])
       \o (IF Len(keys) = 1 THEN <<>>
           ELSE <<",", " ">> \o RenderFields(d, Tail(keys)))

\* Prose a model writes around its answer.
ProseBefore ==
  {<<>>,
   <<"Here", " ", "is", " ", "the", " ", "list", ":", " ">>,
   <<"Here", "'", "s", " ", "the", " ", "list", ":", " ">>,
   <<"see", " ", "[", "note", "]", " ">>,
   <<"The", " ", "\"", "best", " ", "[", "\"", " ", "plans", ":", " ">>}
ProseAfter ==
  {<<>>, <<" ", "done">>, <<" ", "see", " ", "[", "7", "]">>}

ObjA ==
  Dict([product_name |-> Str(<<"A">>), features |-> List(<<Str(<<"f">>)>>)])
ObjB == Dict([product_name |-> Str(<<"B">>)])
ObjC == Dict([product_name |-> Str(<<"C">>), features |-> List(<<>>)])
ObjNamed == Dict([name |-> Str(<<"A">>)])
ObjNull == Dict([product_name |-> None])

\* Prose, a valid array of at most MaxItems objects, prose.
ArrayInput(pre, items, post) ==
  [kind |-> "array", items |-> items,
   text |-> pre \o Render(List(items)) \o post]

\* An outer array that is never closed, after two complete objects; the
\* response may stop inside a third object.
TruncatedTails ==
  {<<>>, <<",", " ", "{", "\"", "product_name", "\"", ":", " ", "\"", "D">>}
BrokenInput(items, tail) ==
  [kind |-> "broken", items |-> items,
   text |-> <<"[">> \o RenderItems(items) \o tail]

\* An answer inside a code fence.
FencedInput(v) ==
  [kind |-> "fenced",
   items |-> IF v.t = "list" THEN v.v ELSE <<v>>,
   text |-> <<"Sure", ":", "\n", Fence, "json", "\n">> \o Render(v)
            \o <<"\n", Fence>>]

\* Other answers: nothing, a refusal, a Python-style literal, an array with
\* a trailing comma, a string holding a raw newline, an empty array beside a
\* lone object, a bare scalar.
OtherTexts ==
  {<<>>,
   <<"Sorry">>,
   <<"[", "{", "'", "product_name", "'", ":", " ", "'", "A", "'", ",", "}",
     "]">>,
   <<"[", "{", "\"", "product_name", "\"", ":", " ", "\"", "A", "\"", "}",
     ",", "]">>,
   <<"[", "{", "\"", "product_name", "\"", ":", " ", "\"", "A", "\n", "B",
     "\"", "}", "]">>,
   <<"No", " ", "array", " ", "[", "]", " ", "but", " ">> \o Render(ObjB),
   <<"7">>}

ResponseTexts ==
  {ArrayInput(pre, items, post) :
     pre \in ProseBefore,
     items \in SeqsUpTo({ObjA, ObjB, ObjNamed, ObjNull}, MaxItems),
     post \in ProseAfter}
  \cup {BrokenInput(items, tail) :
          items \in [1..2 -> {ObjA, ObjB, ObjC}], tail \in TruncatedTails}
  \cup {FencedInput(v) : v \in {List(<<ObjA>>), List(<<ObjNull>>), ObjNamed}}
  \cup {[kind |-> "other", items |-> <<>>, text |-> t] : t \in OtherTexts}

Attempt(k, out) == [strategy |-> k, out |-> out]

parseKeep ==
  <<caller, coordVars, html_content, max_retries, attempt, wait_time, sleeps,
    calls, ret, clock, fn_in, histVars>>

\* Lines 314, 424: the text arrives as the first response, and (stripped)
\* as the content-retry response.
ReceiveResponse ==
  /\ pc = "parse_call"
  /\ response' = Describe(fn_in.text)
  /\ response_retry' = Describe(Strip(fn_in.text))
  /\ pc' = "parse_direct"
  /\ UNCHANGED <<parseKeep, fn_out>>

\* Lines 316-325: strategy 1.  fn_out holds products, the strategies entered
\* so far with the value each left in products, and the lists returned.
DirectParse ==
  /\ pc = "parse_direct"
  /\ fn_out' = [products |-> response.direct,
                attempted |-> <<Attempt(1, response.direct)>>,
                result |-> None, retry |-> None]
  /\ pc' = "parse_fence"
  /\ UNCHANGED <<parseKeep, response, response_retry>>

\* A strategy guarded by enter that leaves out in products.
StrategyStep(k, enter, out, next) ==
  /\ fn_out' = IF enter
               THEN [fn_out EXCEPT !.products = out,
                                   !.attempted = Append(@, Attempt(k, out))]
               ELSE fn_out
  /\ pc' = next
  /\ UNCHANGED <<parseKeep, response, response_retry>>

\* Lines 327-357: strategy 2.
FenceExtraction ==
  /\ pc = "parse_fence"
  /\ StrategyStep(2, fn_out.products = None, response.fenced, "parse_bounds")

\* Lines 359-378: strategy 3.
BracketMatching ==
  /\ pc = "parse_bounds"
  /\ StrategyStep(3, fn_out.products = None,
                  IF response.bounds
                  THEN IF Truthy(response.slice) THEN response.slice
                       ELSE response.repaired
                  ELSE None,
                  "parse_repair")

\* Lines 380-385: strategy 4.
BracketRepair ==
  /\ pc = "parse_repair"
  /\ StrategyStep(4, fn_out.products = None /\ response.brace,
                  IF response.bounds THEN response.repaired ELSE None,
                  "parse_scavenge")

\* Lines 387-395: strategy 5.  (Mutant first: scavenging also runs after an
\* earlier strategy produced a list.)
ObjectScavenging_Always ==
  /\ pc = "parse_scavenge"
  /\ StrategyStep(5, response.nameKey,
                  IF response.scavenged # <<>> THEN List(response.scavenged)
                  ELSE fn_out.products,
                  "parse_end")
ObjectScavenging ==
  /\ pc = "parse_scavenge"
  /\ StrategyStep(5, fn_out.products = None /\ response.nameKey,
                  IF response.scavenged # <<>> THEN List(response.scavenged)
                  ELSE None,
                  "parse_end")

\* Lines 397-405: no strategy produced anything: the empty list.
ParseEnd ==
  /\ pc = "parse_end"
  /\ fn_out' = [fn_out EXCEPT !.result = IF fn_out.products = None
                                         THEN List(<<>>)
                                         ELSE fn_out.products]
  /\ pc' = "parse_retry"
  /\ UNCHANGED <<parseKeep, response, response_retry>>

\* Lines 426-432: the cascade applied to the content-retry response.
RetryParse ==
  /\ pc = "parse_retry"
  /\ fn_out' = [fn_out EXCEPT !.retry = ParseRetryResponse(response_retry)]
  /\ pc' = "parse_done"
  /\ UNCHANGED <<parseKeep, response, response_retry>>

InitParse ==
  /\ caller = "parse"
  /\ pc = "parse_call"
  /\ fn_in \in ResponseTexts
  /\ InitPure

NextParse ==
  \/ ReceiveResponse
  \/ DirectParse
  \/ FenceExtraction
  \/ BracketMatching
  \/ BracketRepair
  \/ ObjectScavenging
  \/ ParseEnd
  \/ RetryParse

SpecParse == InitParse /\ [][NextParse]_vars

\* ------------------------------------------------------------------------
\* Properties
\* ------------------------------------------------------------------------
Distinct(seq) == \A i, j \in 1..Len(seq) : i # j => seq[i] # seq[j]

\* URLs whose iteration has been recorded so far.
Processed == IF pc = "after_url" THEN index + 1 ELSE index

ErrorsFor(u) == {i \in 1..Len(errors) : errors[i].url = u}

RateLimit == Call("loop", "rate_limit")
Ok == Call("loop", "ok")
ApiError == Call("loop", "api_error")

LoopCalls == {k \in 1..Len(calls) : calls[k].phase = "loop"}
RetryCalls == {k \in 1..Len(calls) : calls[k].phase = "retry"}

\* The schedule of the claim, by 0-based attempt.
ClaimedWait(k) == IF k = 0 THEN 8 ELSE IF k = 1 THEN 25 ELSE 60

PageHasIndicators == has_prices(html_content) \/ has_product_words(html_content)

\* C1: in a batch of distinct URLs every processed URL is either a key of the
\* result map or the url of exactly one error entry, never both and never
\* neither; with K failed URLs there are K error entries and N-K result-map
\* entries, and the batch returns with all N URLs accounted for.
C1_EveryUrlAccounted ==
  (caller = "scrape" /\ Distinct(urls)) =>
    /\ \A i \in 1..Processed :
         \/ urls[i] \in DOMAIN all_results /\ ErrorsFor(urls[i]) = {}
         \/ urls[i] \notin DOMAIN all_results
              /\ Cardinality(ErrorsFor(urls[i])) = 1
    /\ Len(errors) = Len(failed)
    /\ Cardinality(DOMAIN all_results) = Processed - Len(failed)
    /\ \A i \in 1..Len(errors) :
         DOMAIN errors[i] = {"url", "error"} /\ Truthy(errors[i].error)
    /\ pc = "returned" => Processed = Len(urls)

C1_Witness ==
  /\ pc = "returned"
  /\ Len(urls) = 2
  /\ Distinct(urls)
  /\ Len(errors) = 1
  /\ Len(failed) = 1
  /\ Cardinality(DOMAIN all_results) = 1

\* C2: every backoff sleep follows a rate-limit failure of a non-last attempt
\* k and lasts the k-th entry of (8, 25, 60), the index capped at the last
\* entry; after the sleep the loop is at attempt k+1.  With max_retries = 3,
\* two rate-limit failures then a success return what the third response
\* parsed to, after 8 + 25 seconds of backoff.
C2_BackoffSchedule ==
  caller = "extract" =>
    /\ \A k \in 1..Len(sleeps) :
         sleeps[k] = ClaimedWait(k - 1) /\ calls[k] = RateLimit
    /\ \A k \in 1..Len(calls) :
         (calls[k] = RateLimit /\ k < max_retries) =>
           \/ Len(sleeps) >= k
           \/ pc = "backoff" /\ k = Len(calls) /\ Len(sleeps) = k - 1
                /\ wait_time = ClaimedWait(k - 1)
    /\ pc = "call" => (attempt = Len(sleeps) /\ Len(calls) = attempt)
    /\ (pc = "done" /\ max_retries = 3 /\ calls = <<RateLimit, RateLimit, Ok>>)
         => /\ sleeps = <<8, 25>>
            /\ clock = 8 + 25
            /\ ret = IF ParseResponse(response) = None THEN List(<<>>)
                     ELSE ParseResponse(response)

C2_Witness ==
  /\ pc = "done"
  /\ max_retries = 3
  /\ calls = <<RateLimit, RateLimit, Ok>>
  /\ response = RespRecords
  /\ ret = List(<<RawPlanA, Num(7)>>)
  /\ clock = 33

\* C3: the retry loop makes at most max_retries model calls; a non-rate-limit
\* API error is the last call, with no sleep after it and an empty list
\* returned; a rate-limit error on the last allowed attempt returns an empty
\* list without another sleep.
C3_BoundedAttempts ==
  caller = "extract" =>
    /\ Cardinality(LoopCalls) <= max_retries
    /\ \A k \in 1..Len(calls) :
         calls[k] = ApiError =>
           /\ k = Len(calls)
           /\ pc = "done"
           /\ ret = List(<<>>)
           /\ Len(sleeps) = k - 1
    /\ \A k \in 1..Len(calls) :
         (calls[k] = RateLimit /\ k = max_retries) =>
           /\ k = Len(calls)
           /\ pc = "done"
           /\ ret = List(<<>>)
           /\ Len(sleeps) = max_retries - 1

C3_Witness ==
  /\ pc = "done"
  /\ max_retries = 3
  /\ calls = <<RateLimit, RateLimit, RateLimit>>
  /\ sleeps = <<8, 25>>
  /\ ret = List(<<>>)

\* C4: extract_product_data never raises: whatever the model call does, the
\* call ends by returning a list.
C4_NeverRaises ==
  (caller = "extract" /\ pc = "done") => ret.t = "list"

\* C5: the content-retry is called at most once per extraction, and only
\* after a first response that parsed to an empty list for a page that has a
\* price pattern or a product keyword; otherwise the first successful model
\* call is the last call.
C5_ContentRetryAtMostOnce ==
  caller = "extract" =>
    /\ Cardinality(RetryCalls) <= 1
    /\ (RetryCalls # {} \/ pc = "retry_call") =>
         /\ response # None
         /\ ParseResponse(response) = List(<<>>)
         /\ html_content \in {PagePriced, PageWords}
    /\ \A k \in 1..Len(calls) :
         calls[k] = Ok => \A j \in (k + 1)..Len(calls) : j \in RetryCalls
    /\ (pc = "done" /\ response # None
          /\ ~(ParseResponse(response) = List(<<>>)
                 /\ html_content \in {PagePriced, PageWords}))
         => calls[Len(calls)] = Ok

C5_Witness ==
  /\ pc = "done"
  /\ html_content = PagePriced
  /\ calls = <<Ok, Call("retry", "ok")>>
  /\ response = RespEmpty
  /\ response_retry = RespRecords
  /\ ret = List(<<RawPlanA, Num(7)>>)

\* C6 (as claimed): after a response that no parser strategy recovers, for a
\* page with price or product indicators, the content-retry is made before
\* zero records are returned.
C6_ParseFailureIsRetried ==
  (caller = "extract" /\ pc = "done" /\ response # None
     /\ ParseResponse(response) = None /\ PageHasIndicators)
    => RetryCalls # {}

\* C6 (amended): after a response that no parser strategy recovers,
\* extract_product_data returns the empty list at once: the successful call
\* is its last model call and no content-retry is made, whatever the page
\* text contains.
C6_ParseFailureReturnsAtOnce ==
  (caller = "extract" /\ response # None /\ ParseResponse(response) = None)
    => /\ pc = "done"
       /\ ret = List(<<>>)
       /\ RetryCalls = {}
       /\ calls[Len(calls)] = Ok

C6_Witness ==
  /\ pc = "done"
  /\ html_content = PagePriced
  /\ response = RespGarbage
  /\ calls = <<Ok>>
  /\ ret = List(<<>>)

\* Keys of the input records, by position.
RECURSIVE KeysOf(_)
KeysOf(products) ==
  IF products = <<>> THEN <<>>
  ELSE <<DedupeKey(Head(products).v)>> \o KeysOf(Tail(products))
InputKeySeq == KeysOf(fn_in)
KeySet(keys) == {keys[i] : i \in 1..Len(keys)}
\* The input positions where a key occurs for the first time.
FirstPositions(keys) ==
  {i \in 1..Len(keys) : \A j \in 1..(i - 1) : keys[j] # keys[i]}
\* The input position whose key is the n-th distinct key in input order.
NthFirst(keys, n) ==
  LET fp == FirstPositions(keys)
  IN CHOOSE i \in fp : Cardinality({j \in fp : j <= i}) = n
\* The input positions that share the n-th distinct key.
GroupOf(keys, n) ==
  LET first == NthFirst(keys, n)
  IN {i \in 1..Len(keys) : keys[i] = keys[first]}
MinOf(S) == CHOOSE x \in S : \A y \in S : x <= y

\* C7: N mapping records with M distinct dedupe keys give exactly M merged
\* records, with stats input_count = N, output_count = M and
\* duplicates_removed = N - M.
C7_OneRecordPerKey ==
  (caller = "dedupe" /\ pc = "dedupe_done") =>
    LET m == Cardinality(KeySet(InputKeySeq))
    IN /\ Len(fn_out.deduped) = m
       /\ fn_out.stats.input_count = Len(fn_in)
       /\ fn_out.stats.output_count = m
       /\ fn_out.stats.duplicates_removed = Len(fn_in) - m

C7_Witness ==
  /\ pc = "dedupe_done"
  /\ Len(fn_in) = 3
  /\ fn_in[1].v.product_name # fn_in[2].v.product_name
  /\ fn_in[1].v.price_monthly # fn_in[2].v.price_monthly
  /\ fn_in[1].v.source_url # fn_in[2].v.source_url
  /\ InputKeySeq[1] = InputKeySeq[2]
  /\ InputKeySeq[3] # InputKeySeq[1]
  /\ Len(fn_out.deduped) = 2
  /\ fn_out.stats.duplicates_removed = 1

KeptFields == {"product_name", "price_monthly", "price_annual", "excess"}
BackfilledFields == {"special_offers", "terms_conditions", "category", "features"}

\* The first non-empty value of field f among the positions of group, in
\* input order; the first record's value when every value is empty.
FirstNonEmpty(group, f) ==
  LET filled == {i \in group : Truthy(fn_in[i].v[f])}
  IN IF filled = {} THEN fn_in[MinOf(group)].v[f]
     ELSE fn_in[MinOf(filled)].v[f]

\* C8: a merged record keeps the first-seen record's name, prices and excess;
\* special_offers, terms_conditions, category and features hold the first
\* non-empty value among the duplicates in input order, so a non-empty value
\* is never replaced by a later duplicate.
C8_FirstSeenWinsBackfillBlanks ==
  (caller = "dedupe" /\ pc = "dedupe_done") =>
    LET keys == InputKeySeq
    IN \A n \in 1..Len(fn_out.deduped) :
         LET group == GroupOf(keys, n)
         IN /\ \A f \in KeptFields :
                 fn_out.deduped[n].v[f] = fn_in[MinOf(group)].v[f]
            /\ \A f \in BackfilledFields :
                 fn_out.deduped[n].v[f] = FirstNonEmpty(group, f)

C8_Witness ==
  /\ pc = "dedupe_done"
  /\ Len(fn_in) = 3
  /\ Len(fn_out.deduped) = 1
  /\ fn_in[1].v.special_offers = None
  /\ fn_in[2].v.special_offers = Str(<<"x">>)
  /\ fn_in[3].v.special_offers = Str(<<"y">>)
  /\ fn_out.deduped[1].v.special_offers = Str(<<"x">>)
  /\ fn_out.deduped[1].v.terms_conditions = Str(<<"t">>)

\* The distinct elements of a sequence in order of first occurrence.
RECURSIVE DistinctInOrder(_)
DistinctInOrder(seq) ==
  IF seq = <<>> THEN <<>>
  ELSE LET init == DistinctInOrder(SubSeq(seq, 1, Len(seq) - 1))
           last == seq[Len(seq)]
       IN IF \E i \in 1..Len(init) : init[i] = last THEN init
          ELSE Append(init, last)

\* The source URLs of the records at the positions of group, in input order.
GroupUrls(group) ==
  LET pos == SelectSeq([i \in 1..Len(fn_in) |-> i], LAMBDA i : i \in group)
  IN [k \in 1..Len(pos) |-> fn_in[pos[k]].v.source_url]

\* C9: the source_url of a merged record is the newline-join of the distinct
\* source URLs of its group, each once, in order of first occurrence.
C9_SourceUrlsJoined ==
  (caller = "dedupe" /\ pc = "dedupe_done") =>
    LET keys == InputKeySeq
    IN \A n \in 1..Len(fn_out.deduped) :
         fn_out.deduped[n].v.source_url
           = Str(JoinNewline(DistinctInOrder(GroupUrls(GroupOf(keys, n)))))

C9_Witness ==
  /\ pc = "dedupe_done"
  /\ Len(fn_in) = 3
  /\ Len(fn_out.deduped) = 1
  /\ fn_in[1].v.source_url = U1
  /\ fn_in[2].v.source_url = U2
  /\ fn_in[3].v.source_url = U1
  /\ fn_out.deduped[1].v.source_url = Str(U1.v \o <<"\n">> \o U2.v)

\* C10: every record produced by validate_extracted_data has a non-null
\* product_name, a non-null category and a list as features.
C10_RequiredFieldsPresent ==
  (caller = "validate" /\ pc = "validate_done") =>
    \A i \in 1..Len(fn_out) :
      /\ fn_out[i].v.product_name # None
      /\ fn_out[i].v.category # None
      /\ fn_out[i].v.features.t = "list"

\* ------------------------------------------------------------------------
\* validate_extracted_data
\* ------------------------------------------------------------------------
Validated == caller = "validate" /\ pc = "validate_done"

SchemaFields ==
  {"product_name", "price_monthly", "price_annual", "excess", "features",
   "special_offers", "terms_conditions", "category"}

\* The record of the claim for a mapping without schema fields.
AllDefaults ==
  Dict([product_name |-> Str(<<"Unknown">>), price_monthly |-> None,
        price_annual |-> None, excess |-> None, features |-> List(<<>>),
        special_offers |-> None, terms_conditions |-> None,
        category |-> Str(<<"General">>)])

\* C19: validate_extracted_data drops every element that is not a mapping,
\* without error, and keeps the mappings in their relative order: the k-th
\* record comes from the k-th mapping; a mapping with none of the schema
\* fields yields product_name "Unknown", category "General", features [] and
\* null for the five other fields.
C19_NonMappingsDroppedDefaultsFilled ==
  Validated =>
    LET mappings == SelectSeq(fn_in, LAMBDA x : IsDict(x))
    IN /\ Len(fn_out) = Len(mappings)
       /\ \A k \in 1..Len(mappings) :
            LET d == mappings[k].v
                rec == fn_out[k].v
            IN /\ DOMAIN rec = SchemaFields
               /\ \A f \in SchemaFields \ {"features"} :
                    (f \in DOMAIN d /\ d[f] # None) => rec[f] = d[f]
               /\ ("features" \in DOMAIN d /\ d.features.t = "list")
                    => rec.features = d.features
               /\ DOMAIN d \cap SchemaFields = {} => fn_out[k] = AllDefaults

\* A number and a mapping without schema fields: one record, all defaults.
C19_Witness ==
  /\ Validated
  /\ fn_in = <<Num(7), RawUnrelated>>
  /\ fn_out = <<AllDefaults>>

\* ------------------------------------------------------------------------
\* dedupe_products and its input
\* ------------------------------------------------------------------------
Deduped == caller = "dedupe" /\ pc = "dedupe_done"

RECURSIVE Deref(_, _)
Deref(heap, refs) ==
  IF refs = <<>> THEN <<>> ELSE <<heap[Head(refs)]>> \o Deref(heap, Tail(refs))

\* C17: dedupe_products leaves its input untouched: after the call the list
\* holds the same objects in the same order and every input record has the
\* keys and values it had (source_url and features included); the merged
\* records it returns are new objects.
C17_InputUntouched ==
  Deduped =>
    /\ Len(fn_out.heap) >= Len(fn_in)
    /\ \A i \in 1..Len(fn_in) : fn_out.heap[i] = fn_in[i]
    /\ \A n \in 1..Len(fn_out.refs) : fn_out.refs[n] > Len(fn_in)
    /\ Deref(fn_out.heap, fn_out.refs) = fn_out.deduped

\* Two records of one product on two pages: the merged record has the
\* joined URLs and the backfilled features, the first input record has
\* neither.
C17_Witness ==
  /\ Deduped
  /\ Len(fn_in) = 2
  /\ fn_out.refs = <<3>>
  /\ fn_in[1].v.source_url = U1
  /\ fn_in[2].v.source_url = U2
  /\ fn_in[1].v.features = List(<<>>)
  /\ fn_out.heap[3].v.features = fn_in[2].v.features
  /\ fn_out.heap[3].v.features # List(<<>>)
  /\ fn_out.heap[3].v.source_url # U1
  /\ fn_out.heap[1] = fn_in[1]

\* The dedupe key a merged record stands for.
OutputKey(rec) ==
  << rec._provider_domain.v,
     _normalize_text(rec.product_name),
     _normalize_money(rec.price_monthly),
     _normalize_money(rec.price_annual),
     _normalize_money(rec.excess) >>

RECURSIVE OutputKeys(_)
OutputKeys(deduped) ==
  IF deduped = <<>> THEN <<>>
  ELSE <<OutputKey(Head(deduped).v)>> \o OutputKeys(Tail(deduped))

\* C18: dedupe_products is order-stable: the merged records appear in the
\* order in which their dedupe keys first occur in the input, one per key,
\* wherever the later duplicates stand; the output is thereby a function of
\* the input list alone.
C18_OrderOfFirstOccurrence ==
  Deduped =>
    OutputKeys(fn_out.deduped) = DistinctInOrder(InputKeySeq)

\* The third record repeats the key of the first: the merged record of that
\* key stays in front of the record of the second key.
C18_Witness ==
  /\ Deduped
  /\ Len(fn_in) = 3
  /\ InputKeySeq[1] # InputKeySeq[2]
  /\ InputKeySeq[3] = InputKeySeq[1]
  /\ fn_in[3].v.product_name # fn_in[1].v.product_name
  /\ Len(fn_out.deduped) = 2
  /\ fn_out.deduped[1].v.product_name = fn_in[1].v.product_name
  /\ fn_out.deduped[2].v.product_name = fn_in[2].v.product_name

\* ------------------------------------------------------------------------
\* Provider views
\* ------------------------------------------------------------------------
Prepared == caller = "prepare" /\ pc = "prepare_done"

\* The entries of the map whose URL belongs to the provider domain.
EntriesOf(domain) ==
  SelectSeq(fn_in, LAMBDA entry : _domain_from_url(entry.url) = domain)

RECURSIVE RecordsOf(_)
RecordsOf(entries) ==
  IF entries = <<>> THEN <<>>
  ELSE Head(entries).products \o RecordsOf(Tail(entries))

\* Each view is the dedupe of all records of its provider's URLs.
ViewsAreMergedProviders ==
  /\ \A i, j \in 1..Len(fn_out) :
       i # j => fn_out[i].provider_domain # fn_out[j].provider_domain
  /\ \A i \in 1..Len(fn_out) :
       LET view == fn_out[i]
           records == RecordsOf(EntriesOf(view.provider_domain))
       IN /\ view.products = dedupe_products(records).deduped
          /\ view.product_count = Cardinality(KeySet(KeysOf(records)))
          /\ view.product_count = view.dedupe.output_count
          /\ view.product_count = Len(view.products)
          /\ view.dedupe.input_count = Len(records)

ViewDomains == {fn_out[i].provider_domain : i \in 1..Len(fn_out)}

Windowed == caller = "window" /\ pc # "window_call"
Rewindowed == caller = "window" /\ pc = "rewindow_done"

\* C11: for every text and every budget max_chars >= 0 the string returned
\* by _build_extraction_input, separator markers included, is at most
\* max_chars characters long.
C11_OutputWithinBudget ==
  Windowed => TextLen(fn_out.out) <= fn_in.max_chars

\* The output is one merged window of the page, taken whole.
NonBlankWindows(t) ==
  SelectSeq(MergedWindows(t), LAMBDA w : ~IsBlank(Slice(t, w.s, w.e)))

SingleUncutWindow ==
  LET parts == WindowParts(fn_in.text, fn_in.max_chars)
      windows == NonBlankWindows(fn_in.text)
  IN /\ Len(parts) = 1
     /\ TextLen(parts[1]) = windows[1].e - windows[1].s

\* C20 as stated: for any text and budget, re-windowing an output that is
\* within the budget with the same budget returns it unchanged.
C20_RewindowIsIdentity ==
  (Rewindowed /\ TextLen(fn_out.out) <= fn_in.max_chars)
    => fn_out.again = fn_out.out

\* C20, amended: when the output is a single window of the text that the
\* budget did not cut, re-windowing it with the same budget finds one
\* window spanning all of it and returns it unchanged.
C20_UncutSingleWindowIsFixed ==
  (Rewindowed /\ SingleUncutWindow)
    => /\ MergedWindows(fn_out.out)
            = <<[s |-> 0, e |-> TextLen(fn_out.out)]>>
       /\ fn_out.again = fn_out.out

\* A page longer than its single window: the output is a proper part of
\* the page and is a fixed point.
C20_Witness ==
  /\ Rewindowed
  /\ SingleUncutWindow
  /\ TextLen(fn_out.out) < TextLen(fn_in.text)
  /\ fn_out.again = fn_out.out

\* ------------------------------------------------------------------------
\* The coordinator's loop
\* ------------------------------------------------------------------------
FetchEvents == {"fetch_failed", "fetch_empty", "fetch_ok"}

\* Positions of the trace where step e was taken at index i.
StepsAt(e, i) == {k \in 1..Len(trace) : trace[k].e = e /\ trace[k].i = i}

\* Indexes whose fetch failed.
FetchFailedAt == {i \in 0..(Len(urls) - 1) : StepsAt("fetch_failed", i) # {}}

\* C12: when the fetch of a URL fails, fetch_url_content reports the failure
\* without raising, no model call is made for that URL, the batch result has
\* no result-map entry and exactly one error entry for it (the message of a
\* failed fetch), and every later URL is still processed.
C12_FetchFailureIsolated ==
  caller = "scrape" =>
    \A i \in FetchFailedAt :
      /\ \A k \in StepsAt("fetch_failed", i) :
           k < Len(trace) /\ trace[k + 1].e = "recorded" /\ trace[k + 1].i = i
      /\ (pc = "after_url" /\ index = i) => url_calls = 0
      /\ Distinct(urls) =>
           /\ urls[i + 1] \notin DOMAIN all_results
           /\ Cardinality(ErrorsFor(urls[i + 1])) = 1
           /\ \A k \in ErrorsFor(urls[i + 1]) :
                errors[k].error = FetchFailedResult(urls[i + 1]).error
      /\ pc = "returned" =>
           /\ \A j \in (i + 1)..(Len(urls) - 1) :
                /\ \E e \in FetchEvents : StepsAt(e, j) # {}
                /\ StepsAt("recorded", j) # {}
           /\ Distinct(urls) =>
                /\ urls[i + 1] \notin DOMAIN extracted_data
                /\ \E k \in 1..Len(self_errors) :
                     self_errors[k].url = urls[i + 1]

\* The first URL cannot be fetched, the second yields products.
C12_Witness ==
  /\ pc = "returned"
  /\ Len(urls) = 2
  /\ Distinct(urls)
  /\ FetchFailedAt = {0}
  /\ urls[2] \in DOMAIN extracted_data
  /\ Len(self_errors) = 1

DelayCount == Cardinality({k \in 1..Len(trace) : trace[k].e = "delay"})

\* The delay steps taken so far are those after each finished URL that is
\* not the last; none is missing before the URL in progress.
DelaysInPlace ==
  /\ DelayCount = Min(index, Max(Len(urls) - 1, 0))
  /\ \A k \in 1..Len(trace) :
       /\ trace[k].e = "delay" =>
            /\ trace[k].i < Len(urls) - 1
            /\ k > 1 /\ trace[k - 1].e = "recorded"
            /\ trace[k - 1].i = trace[k].i
       /\ (trace[k].e = "recorded" /\ trace[k].i < Len(urls) - 1
           /\ k < Len(trace)) =>
            trace[k + 1].e = "delay" /\ trace[k + 1].i = trace[k].i
       /\ (trace[k].e \in FetchEvents /\ trace[k].i > 0) =>
            \E j \in 1..(k - 1) :
              trace[j].e = "delay" /\ trace[j].i = trace[k].i - 1
  /\ pc = "returned" => DelayCount = Max(Len(urls) - 1, 0)

\* Leaving a URL costs the fixed delay, or nothing after the last URL,
\* whatever the extraction of that URL slept.
DelayStep ==
  (caller = "scrape" /\ pc = "after_url") =>
    /\ pc' = "loop"
    /\ clock' = clock + (IF index < Len(urls) - 1
                         THEN InterRequestDelaySeconds ELSE 0)
    /\ (index < Len(urls) - 1) <=> (Len(trace') = Len(trace) + 1)

\* C13: scrape_multiple_urls sleeps the fixed 2-second delay exactly once
\* after each URL except the last (N-1 times for N URLs, never for N <= 1),
\* whether that URL succeeded or failed and whatever backoff its extraction
\* slept; the fetch of the next URL never starts before that delay.
C13_DelayBetweenUrls ==
  [](caller = "scrape" => DelaysInPlace) /\ [][DelayStep]_vars

\* Two URLs, the first of which failed after a backoff: one delay, and the
\* clock shows the backoff plus the delay.
C13_Witness ==
  /\ pc = "returned"
  /\ Len(urls) = 2
  /\ DelayCount = 1
  /\ Len(errors) >= 1
  /\ errors[1].url = urls[1]
  /\ clock > InterRequestDelaySeconds

\* Rank of a step within its iteration.
StepRank(e) ==
  IF e = "progress" THEN 0
  ELSE IF e \in FetchEvents THEN 1
  ELSE IF e = "recorded" THEN 2
  ELSE 3

\* The trace walks the input list once, front to back, and within each
\* iteration runs progress callback, fetch, recording, delay in this order,
\* skipping only the delay after the last URL.
InInputOrder ==
  /\ \A k \in 1..Len(trace) :
       /\ trace[k].i \in 0..(Len(urls) - 1)
       /\ trace[k].url = urls[trace[k].i + 1]
  /\ Len(trace) > 0 => (trace[1].e = "progress" /\ trace[1].i = 0)
  /\ \A k \in 1..(Len(trace) - 1) :
       IF StepRank(trace[k].e) = 3
       THEN trace[k + 1].e = "progress" /\ trace[k + 1].i = trace[k].i + 1
       ELSE /\ trace[k + 1].i = trace[k].i
            /\ StepRank(trace[k + 1].e) = StepRank(trace[k].e) + 1
  /\ \A i \in 0..(Len(urls) - 1) :
       /\ Cardinality(StepsAt("progress", i)) <= 1
       /\ Cardinality(StepsAt("recorded", i)) <= 1
       /\ Cardinality(UNION {StepsAt(e, i) : e \in FetchEvents}) <= 1
  /\ pc \in {"call", "backoff", "retry_call"} =>
       /\ trace[Len(trace)].e = "fetch_ok"
       /\ trace[Len(trace)].i = index
  /\ pc = "returned" =>
       \A i \in 0..(Len(urls) - 1) :
         /\ Cardinality(StepsAt("progress", i)) = 1
         /\ Cardinality(StepsAt("recorded", i)) = 1
         /\ Cardinality(UNION {StepsAt(e, i) : e \in FetchEvents}) = 1

BatchReturned == caller = "scrape" /\ pc = "returned"

\* C14: URLs are processed strictly one at a time in input order: progress
\* callback, fetch, extraction, normalization and tagging of one URL all
\* finish before anything starts for the next, each input position is
\* processed exactly once, and every batch eventually returns.
C14_SequentialAndTerminates ==
  [](caller = "scrape" => InInputOrder) /\ <>BatchReturned

C14_Witness ==
  /\ BatchReturned
  /\ Len(urls) = 2
  /\ urls[1] # urls[2]
  /\ Len(trace) = 7
  /\ trace[3].e = "recorded" /\ trace[3].url = urls[1]
  /\ trace[5].e = "progress" /\ trace[5].url = urls[2]

\* The label the caller gave for u, if any.
LabelOf(u) ==
  IF Truthy(url_to_competitor) THEN Get(url_to_competitor.v, u, None) ELSE None

\* C15: every record stored under URL u carries source_url = u, whatever the
\* model wrote, and carries competitor = the caller's label for u exactly
\* when url_to_competitor gives u a non-empty label; otherwise it has no
\* competitor field.
C15_ProvenanceTags ==
  caller = "scrape" =>
    \A u \in DOMAIN all_results :
      \A k \in 1..Len(all_results[u].v) :
        LET rec == all_results[u].v[k].v
        IN /\ "source_url" \in DOMAIN rec
           /\ rec.source_url = u
           /\ IF Truthy(LabelOf(u))
              THEN "competitor" \in DOMAIN rec /\ rec.competitor = LabelOf(u)
              ELSE "competitor" \notin DOMAIN rec

\* A labelled URL, a URL with an empty label and a record whose model
\* output named another source and competitor.
C15_Witness ==
  /\ pc = "returned"
  /\ urls = <<U1, U3>>
  /\ Truthy(url_to_competitor)
  /\ DOMAIN extracted_data = {U1, U3}
  /\ extracted_data[U1].v[1].v.competitor = Str(<<"Acme">>)
  /\ extracted_data[U1].v[1].v.product_name = Str(<<"Plan", " ", "B">>)
  /\ "competitor" \notin DOMAIN extracted_data[U3].v[1].v

\* ------------------------------------------------------------------------
\* The content-retry call and the backoff loop
\* ------------------------------------------------------------------------
FailedRetryCalls ==
  {k \in 1..Len(calls) : calls[k].phase = "retry" /\ calls[k].outcome # "ok"}

OkCalls == {k \in 1..Len(calls) : calls[k] = Ok}

\* A failed content-retry call ends the extraction with the empty list; the
\* number of model calls and the place of the sleeps are bounded.
RetryOutsideLoop ==
  /\ \A k \in FailedRetryCalls :
       /\ k = Len(calls)
       /\ pc = "done"
       /\ ret = List(<<>>)
  /\ Len(calls) <= max_retries + 1
  /\ \A k \in RetryCalls : k > 1 /\ calls[k - 1] = Ok
  /\ \A k \in OkCalls : Len(sleeps) = k - 1
  /\ pc = "backoff" => OkCalls = {} /\ RetryCalls = {}

\* The step that leaves the content-retry call sleeps nothing and makes
\* this one model call.
RetryCallStep ==
  (caller = "extract" /\ pc = "retry_call") =>
    /\ pc' = "done"
    /\ sleeps' = sleeps
    /\ clock' = clock
    /\ Len(calls') = Len(calls) + 1

\* C28: the content-retry model call is outside the rate-limit backoff loop:
\* if it fails (rate-limit signal or any other error) no backoff sleep and no
\* further model call happens and extract_product_data returns the empty
\* list; one extraction call makes at most max_retries + 1 model calls and
\* every backoff sleep precedes the first successful model call.
C28_RetryCallOutsideBackoffLoop ==
  [](caller = "extract" => RetryOutsideLoop) /\ [][RetryCallStep]_vars

\* Two attempts allowed: a rate limit, a success that parsed to nothing and
\* a rate-limited content-retry make three model calls and one sleep.
C28_Witness ==
  /\ caller = "extract"
  /\ pc = "done"
  /\ max_retries = 2
  /\ calls = <<RateLimit, Ok, Call("retry", "rate_limit")>>
  /\ sleeps = <<8>>
  /\ clock = 8
  /\ ret = List(<<>>)

\* ------------------------------------------------------------------------
\* The result map
\* ------------------------------------------------------------------------
\* C29: every URL key of the result map returned by scrape_multiple_urls
\* maps to a non-empty list of records: a URL whose extraction yields no
\* usable record (a parsed list of non-mapping entries included) is reported
\* through an error entry, never as a result-map entry with zero records.
C29_ResultEntriesNonEmpty ==
  caller = "scrape" =>
    /\ \A u \in DOMAIN all_results : all_results[u].v # <<>>
    /\ \A u \in DOMAIN extracted_data : extracted_data[u].v # <<>>

\* ------------------------------------------------------------------------
\* Providers in a flat list of records
\* ------------------------------------------------------------------------
\* The provider domains of the URLs joined into one merged record.
MergedDomains(rec) ==
  {ViewDomain(rec._source_urls.v[i]) : i \in 1..Len(rec._source_urls.v)}

\* C30: dedupe_products never merges records of different providers: for a
\* flat list of records from several provider domains, all source URLs
\* joined into one merged record share the same lower-cased domain, even
\* when name, prices and excess are identical across providers.
C30_NoMergeAcrossProviders ==
  Deduped =>
    /\ \A n \in 1..Len(fn_out.deduped) :
         /\ Cardinality(MergedDomains(fn_out.deduped[n].v)) = 1
         /\ MergedDomains(fn_out.deduped[n].v)
              = {fn_out.deduped[n].v._provider_domain.v}
    /\ \A i \in 1..Len(fn_in) :
         \E n \in 1..Len(fn_out.deduped) :
           \E k \in 1..Len(fn_out.deduped[n].v._source_urls.v) :
             fn_out.deduped[n].v._source_urls.v[k] = fn_in[i].v.source_url

\* The same plan at the same price on a page of one provider, on a page of
\* another and on a second page of the first: two merged records.
C30_Witness ==
  /\ Deduped
  /\ Len(fn_in) = 3
  /\ fn_in[1].v.source_url = U1
  /\ fn_in[2].v.source_url = U3
  /\ fn_in[3].v.source_url = U2
  /\ fn_in[1].v.product_name = fn_in[2].v.product_name
  /\ fn_in[1].v.price_monthly = fn_in[2].v.price_monthly
  /\ Tail(InputKeySeq[1]) = Tail(InputKeySeq[2])
  /\ Tail(InputKeySeq[1]) = Tail(InputKeySeq[3])
  /\ Len(fn_out.deduped) = 2
  /\ fn_out.deduped[1].v._source_urls = List(<<U1, U2>>)
  /\ fn_out.deduped[2].v._source_urls = List(<<U3>>)

\* ------------------------------------------------------------------------
\* _normalize_money
\* ------------------------------------------------------------------------
Normalized == caller = "money" /\ pc = "money_done"

\* The first currency symbol and the first numeric token of a value, the
\* thousands separators taken out; empty when there is none.
CurrencyOf(value) ==
  IF value.t = "none" THEN <<>> ELSE FirstCurrency(value.v)
NumberOf(value) ==
  IF value.t = "none" THEN <<>> ELSE FirstNumber(RemoveCommas(value.v))

\* Two money-like values (each names an amount) with the same first symbol
\* and the same first numeric token.
AgreeOnSymbolAndNumber(x, y) ==
  /\ x # None /\ y # None
  /\ NumberOf(x) # <<>>
  /\ CurrencyOf(x) = CurrencyOf(y)
  /\ NumberOf(x) = NumberOf(y)

IsBlankValue(value) == value = None \/ Strip(value.v) = <<>>

\* C23 as stated: _normalize_money depends only on the first currency symbol
\* and the first numeric token of its argument: two strings that agree on
\* both normalize to the same token, and absent values normalize to the
\* empty string.
C23_MoneyDependsOnSymbolAndNumber ==
  Normalized =>
    /\ AgreeOnSymbolAndNumber(fn_in.a, fn_in.b) => fn_out.a = fn_out.b
    /\ fn_in.a = None => fn_out.a = <<>>
    /\ fn_in.b = None => fn_out.b = <<>>

\* C23, amended: a value that has both a currency symbol and a numeric token
\* normalizes to the first symbol followed by the first token, so two such
\* values that agree on both normalize to the same token; a value that
\* lacks either normalizes to its own text, stripped; absent and blank
\* values normalize to the empty string.
C23_MoneyTokenWhenSymbolAndNumber ==
  Normalized =>
    /\ (AgreeOnSymbolAndNumber(fn_in.a, fn_in.b)
          /\ CurrencyOf(fn_in.a) # <<>> /\ NumberOf(fn_in.a) # <<>>)
         => /\ fn_out.a = fn_out.b
            /\ fn_out.a = CurrencyOf(fn_in.a) \o NumberOf(fn_in.a)
    /\ \A x \in {"a", "b"} :
         /\ IsBlankValue(fn_in[x]) => fn_out[x] = <<>>
         /\ (~IsBlankValue(fn_in[x])
               /\ (CurrencyOf(fn_in[x]) = <<>> \/ NumberOf(fn_in[x]) = <<>>))
              => fn_out[x] = Strip(fn_in[x].v)

\* "£15.50 a month" and "£15.50".
C23_Witness ==
  /\ Normalized
  /\ fn_in.a = Str(<<"£", "1", "5", ".", "5", "0", " ", "a", " ", "month">>)
  /\ fn_in.b = Str(<<"£", "1", "5", ".", "5", "0">>)
  /\ fn_out.a = <<"£", "1", "5", ".", "5", "0">>
  /\ fn_out.b = fn_out.a

\* ------------------------------------------------------------------------
\* Price aggregates
\* ------------------------------------------------------------------------
Priced == caller = "prices" /\ pc = "price_done"

\* A present price text holds a number when its first run of digits and
\* dots is one.
HoldsNumber(price) ==
  /\ Truthy(price)
  /\ FirstNumericRun(price.v) # <<>>
  /\ FloatOf(FirstNumericRun(price.v)).t = "num"

ParsedCount(field) ==
  Cardinality({i \in 1..Len(fn_in) : HoldsNumber(fn_in[i].v[field])})

\* min, max and avg over the prices that hold a number: all None without
\* such a price, otherwise min <= avg <= max over exactly those prices.
AggregateOverParsed(agg, field) ==
  IF ParsedCount(field) = 0
  THEN agg = [min |-> None, max |-> None, avg |-> None]
  ELSE /\ agg.avg.n = ParsedCount(field)
       /\ agg.min.v * agg.avg.n <= agg.avg.sum
       /\ agg.avg.sum <= agg.max.v * agg.avg.n

\* C27: price aggregates (the ProviderView price_range and the coordinator's
\* summary statistics) are computed only over prices that parse as numbers:
\* a present price string from which no valid number can be parsed is
\* excluded without raising, min/max/avg are all None when no price parses,
\* and otherwise min <= avg <= max.
C27_UnparsablePricesExcluded ==
  Priced =>
    /\ fn_out.range.t = "dict"
    /\ fn_out.stats.t = "dict"
    /\ AggregateOverParsed(fn_out.range.monthly, "price_monthly")
    /\ AggregateOverParsed(fn_out.range.annual, "price_annual")
    /\ AggregateOverParsed(fn_out.stats.monthly, "price_monthly")
    /\ AggregateOverParsed(fn_out.stats.annual, "price_annual")

\* ------------------------------------------------------------------------
\* _find_array_bounds
\* ------------------------------------------------------------------------
Bounded == caller = "bounds" /\ pc = "bounds_done"

\* The kind of each character of a text read from its start: "open" and
\* "close" are brackets outside quoted strings; a quote opens a string that
\* the same quote closes, and a backslash inside a string escapes the next
\* character.
RECURSIVE Kinds(_, _, _)
Kinds(txt, q, escape) ==
  IF txt = <<>> THEN <<>>
  ELSE LET c == Head(txt)
       IN IF escape THEN <<"quoted">> \o Kinds(Tail(txt), q, FALSE)
          ELSE IF q # ""
          THEN <<"quoted">>
                 \o Kinds(Tail(txt), IF c = q THEN "" ELSE q, c = "\\")
          ELSE IF c \in {"\"", "'"} THEN <<"quoted">> \o Kinds(Tail(txt), c, FALSE)
          ELSE IF c = "[" THEN <<"open">> \o Kinds(Tail(txt), "", FALSE)
          ELSE IF c = "]" THEN <<"close">> \o Kinds(Tail(txt), "", FALSE)
          ELSE <<"other">> \o Kinds(Tail(txt), "", FALSE)

\* Brackets opened and not yet closed among kinds[from..to] (1-based).
RECURSIVE OpenDepth(_, _, _)
OpenDepth(kinds, from, to) ==
  IF to < from THEN 0
  ELSE LET d == OpenDepth(kinds, from, to - 1)
       IN IF kinds[to] = "open" THEN d + 1
          ELSE IF kinds[to] = "close" THEN d - 1
          ELSE d

\* The bracket at offset e is the one that balances the bracket at offset s.
Balances(kinds, s, e) ==
  /\ kinds[s + 1] = "open"
  /\ kinds[e + 1] = "close"
  /\ OpenDepth(kinds, s + 1, e + 1) = 0
  /\ \A k \in (s + 1)..e : OpenDepth(kinds, s + 1, k) > 0

\* An opening bracket before offset s is still open at s.
NestedAt(kinds, s) ==
  \E o \in 0..(s - 1) :
    /\ kinds[o + 1] = "open"
    /\ \A k \in (o + 1)..s : OpenDepth(kinds, o + 1, k) > 0

\* C25: _find_array_bounds returns either (-1, -1) or a span (s, e) with
\* s < e where text[s] is a "[" outside any quoted string and text[e] is the
\* "]" that balances it when brackets inside quoted strings (with escapes
\* respected) are ignored; the span is a top-level array, never an array
\* nested inside another bracket that encloses it.
C25_SpanIsTopLevelArray ==
  Bounded =>
    \/ fn_out = NoSpan
    \/ /\ 0 <= fn_out.s /\ fn_out.s < fn_out.e /\ fn_out.e < Len(fn_in)
       /\ fn_in[fn_out.s + 1] = "["
       /\ fn_in[fn_out.e + 1] = "]"
       /\ Balances(Kinds(fn_in, "", FALSE), fn_out.s, fn_out.e)
       /\ ~NestedAt(Kinds(fn_in, "", FALSE), fn_out.s)

\* ------------------------------------------------------------------------
\* The parsing stage on response texts
\* ------------------------------------------------------------------------
Parsed == caller = "parse" /\ pc \in {"parse_retry", "parse_done"}

\* C21: when the response is prose, then a valid JSON array of objects,
\* then prose, the parsing stage returns exactly the elements of that array,
\* in order.
C21_ProseAroundArrayYieldsElements ==
  (Parsed /\ fn_in.kind = "array") => fn_out.result = List(fn_in.items)

\* C22: when the outer array of the response is broken but the response
\* holds two complete objects, each with a non-null product_name, the
\* parsing stage returns exactly those two objects, in order, whatever other
\* fields (nested feature arrays too) they have.
C22_BrokenArrayYieldsCompleteObjects ==
  (Parsed /\ fn_in.kind = "broken") => fn_out.result = List(fn_in.items)

\* C24: the strategies run in the order direct parse, code-fence
\* extraction, bracket matching, bracket matching with repair, object
\* scavenging; a strategy is attempted only if every earlier one left no
\* result, and the list returned is the output of the first strategy that
\* produced one (the empty list when none did).
Attempted == fn_out.attempted
LastOut == Attempted[Len(Attempted)].out
C24_StrategiesInOrderFirstResultWins ==
  (caller = "parse" /\ pc \notin {"parse_call", "parse_direct"}) =>
    /\ Attempted[1].strategy = 1
    /\ \A j \in 1..Len(Attempted) : \A i \in 1..(j - 1) :
         /\ Attempted[i].strategy < Attempted[j].strategy
         /\ Attempted[i].out = None
    /\ Parsed =>
         fn_out.result = IF LastOut = None THEN List(<<>>) ELSE LastOut

\* Four strategies left nothing and scavenging produced the list returned.
C24_Witness ==
  /\ Parsed
  /\ Len(Attempted) = 5
  /\ LastOut # None
  /\ fn_out.result = LastOut

\* C26: a text parsed as the content-retry response yields the same record
\* list as the same text parsed as a first response.
C26_RetryParsedLikeFirst ==
  (caller = "parse" /\ pc = "parse_done") => fn_out.retry = fn_out.result

====
